---- MODULE Spec2Model ----
(***************************************************************************)
(* Model of the e3db JavaScript client (Client, its access-key cache and   *)
(* token slot, Crypto's envelope operations, QueryResult) together with    *)
(* the storage service it talks to.  One action is one awaited request:    *)
(* the server handles the request and the client runs the continuation up  *)
(* to its next await.                                                      *)
(***************************************************************************)
EXTENDS Integers, Sequences, FiniteSets, TLC

VARIABLES
    srvEak,      \* server: access_keys/{W}/{U}/{R}/{T} -> stored EAK
    srvPolicy,   \* server: policy/{W}/{U}/{R}/{T} -> "none" | "allow" | "deny"
    srvRecords,  \* server: record id -> stored record
    config,      \* client.config.version, per Client instance
    akCache,     \* client._akCache, per Client instance
    authToken,   \* client._authToken, per Client instance
    authTokenTimeout, \* client._authTokenTimeout, per Client instance
    srvExpiry,   \* auth service: expires_at of the token last issued to a client
    now,         \* Date.now()
    sent,        \* history: the Authorization of a Client's last storage request
    proc,        \* the calls in flight: one record per caller slot
    nextKey,     \* number of keys Crypto.randomKey() has handed out
    wire,        \* the form of the data field in the last record body put on the wire
    grant,       \* history: where the last share/revoke of (W,R,T) got to
                 \* (proc's seen: that value while a read was served; proc's
                 \* want: the plaintext last written when a read was served)
    lastData     \* history: the plaintext value of the last accepted write of a record

\* The token slot of the Clients, the auth service's side of it and the clock.
tokenVars == <<authToken, authTokenTimeout, srvExpiry, now, sent>>

vars == <<srvEak, srvPolicy, srvRecords, config, akCache, tokenVars, proc, nextKey,
          wire, grant, lastData>>

----------------------------------------------------------------------------
(* Bounds and input sets *)

MaxRecords == 1
MaxKeys == 2
MaxVersion == 2
MaxTime == 3
TokenTtl == 1

Clients == {"A", "B"}
Writers == {"A"}
Types == {"t1"}
Values == {"v0", "v1"}
DataKeys == {"d1"}
EmailReader == "bob@example.com"
\* the client the X-Backup-Client header names
BackupClient == "B"

Procs == {"p1", "p2", "p3"}
SeqProcs == {"p1", "p3"}
Owner(p) == IF p = "p3" THEN "B" ELSE "A"

Rids == 1..MaxRecords
PageSizes == 1..MaxRecords
Keys == 1..MaxKeys
Quads == {q \in Clients \X Clients \X Clients \X Types : q[1] = q[2] /\ q[1] \in Writers}
CacheKeys == {k \in Clients \X Clients \X Types : k[1] = k[2] /\ k[1] \in Writers}

----------------------------------------------------------------------------
(* Values *)

NoField == [form |-> "none", val |-> "-", dk |-> "-", ak |-> 0]
NoSig == [key |-> "-", doc |-> <<>>]
NoRec == [rid |-> 0, writer |-> "-", user |-> "-", type |-> "-",
          data |-> NoField, version |-> 0, signature |-> NoSig]
NoToken == "null"
NoInfo == [writer |-> "-", user |-> "-", type |-> "-", plain |-> <<>>, data |-> <<>>]

PlainField(v) == [form |-> "plain", val |-> v, dk |-> "-", ak |-> 0]

\* Config of a Client instance: clientId and the Curve25519 key pair.
ClientId(c) == c
PublicKey(id) == id
PrivateKey(c) == c

----------------------------------------------------------------------------
(* Crypto: the sealed forms keep what was sealed and under which keys, so   *)
(* that opening with another key fails as the libsodium call does.          *)

NoBox == [ak |-> 0, from |-> "-", to |-> "-"]
NoEak == [eak |-> NoBox, authorizer |-> "-"]
OpenFailed == 0 - 1

\* A faulty encryptAk: the key sealed for another party is not the key given.
EncryptAkRekeyed(writerKey, ak, readerKey) ==
    [ak |-> IF readerKey = writerKey THEN ak ELSE ak + 1,
     from |-> writerKey, to |-> readerKey]

\* Crypto.encryptAk(writerKey, ak, readerKey): crypto_box from the writer's
\* private key to the reader's public key.
EncryptAk(writerKey, ak, readerKey) == [ak |-> ak, from |-> writerKey, to |-> readerKey]

\* Crypto.decryptEak(readerKey, eakInfo): crypto_box_open with the
\* authorizer's public key carried by the EAKInfo and the reader's private key.
DecryptEak(readerKey, eakInfo) ==
    IF /\ eakInfo.eak.ak # 0
       /\ eakInfo.eak.from = eakInfo.authorizerPublicKey
       /\ eakInfo.eak.to = readerKey
    THEN eakInfo.eak.ak
    ELSE OpenFailed

\* One field of Crypto.encryptRecord: a data key seals the value (EF) and the
\* access key seals the data key (EDK); the 4-part dotted string.
EncryptField(f, accessKey, dk) ==
    [form |-> "enc", val |-> f.val, dk |-> dk, ak |-> accessKey]

\* One field of Crypto.decryptRecord: split in 4 parts, open EDK with the
\* access key, open EF with the data key; anything else throws.
DecryptField(f, accessKey) ==
    IF f.form = "enc" /\ f.ak = accessKey
    THEN [form |-> "plain", val |-> f.val, dk |-> "-", ak |-> 0]
    ELSE [form |-> "error", val |-> "-", dk |-> "-", ak |-> 0]

\* Crypto.encryptRecord: a new Meta(writerId, userId, type, plain), so the
\* clone carries no recordId and no version.
EncryptRecord(record, accessKey, dk) ==
    [rid |-> 0, writer |-> record.writer, user |-> record.user, type |-> record.type,
     data |-> EncryptField(record.data, accessKey, dk), version |-> 0,
     signature |-> record.signature]

\* A faulty decryptRecord: the clone gets a new Meta, as encryptRecord's does.
DecryptRecordNewMeta(encrypted, accessKey) ==
    [encrypted EXCEPT !.data = DecryptField(encrypted.data, accessKey),
                      !.rid = 0, !.version = 0]

\* Crypto.decryptRecord: the meta is cloned with recordId and version.
DecryptRecord(encrypted, accessKey) ==
    [encrypted EXCEPT !.data = DecryptField(encrypted.data, accessKey)]

----------------------------------------------------------------------------
(* Signatures *)

\* Config of a version-2 Client: the Ed25519 key pair.
PublicSignKey(id) == id
PrivateSignKey(c) == c

\* RecordInfo(meta, data).stringify(): the canonical form of the meta fields
\* that are signed (writer, user, type; none of the fields the server
\* assigns) followed by that of the data.
Stringify(record) == <<record.writer, record.user, record.type, record.data.val>>

\* Crypto.signDocument: the detached signature of document.stringify().
SignDocument(document, signingKey) == [key |-> signingKey, doc |-> document]

\* A faulty verifyDocumentSignature: any signature over the document passes,
\* whoever made it.
VerifyDocumentSignatureAnyKey(document, signature, verifyingKey) ==
    signature.doc = document

\* Crypto.verifyDocumentSignature: crypto_sign_verify_detached.
VerifyDocumentSignature(document, signature, verifyingKey) ==
    /\ signature.key = verifyingKey
    /\ signature.doc = document

\* A faulty write: the record is signed whatever the version of the config.
SignatureForAnyVersion(c, record) == SignDocument(Stringify(record), PrivateSignKey(c))

\* write, update, encrypt: this.config.version > 1 ? await this.sign(info) : null
SignatureFor(c, record) ==
    IF config[c] > 1 THEN SignDocument(Stringify(record), PrivateSignKey(c)) ELSE NoSig

\* The Record write, update and encrypt go on with.
Signed(c, record) == [record EXCEPT !.signature = SignatureFor(c, record)]

----------------------------------------------------------------------------
(* Responses and tokens *)

\* A faulty checkStatus: 409 passes as well.
CheckStatusLax(status) == (status >= 200 /\ status < 300) \/ status = 409

\* checkStatus: 2xx passes, anything else throws Error(response.statusText).
CheckStatus(status) == status >= 200 /\ status < 300

StatusText(status) ==
    CASE status = 403 -> "Forbidden"
      [] status = 404 -> "Not Found"
      [] status = 401 -> "Unauthorized"
      [] status = 409 -> "Conflict"
      [] OTHER -> "Internal Server Error"

\* JavaScript's undefined in the token slot, NaN in the timeout.
Undefined == "undefined"
NaN == 0 - 1

\* A timestamp as the auth service writes it in expires_at; a body without
\* the field gives undefined.
IsoString(t) == [ms |-> t]
NoDate == [ms |-> NaN]

\* Date.parse: the time in ms of a timestamp, NaN for undefined.
DateParse(s) == IF s = NoDate THEN NaN ELSE s.ms

\* a > b on numbers: false when b is NaN.
Later(a, b) == b # NaN /\ a > b

\* getToken's test: _authToken === null || Date.now() > _authTokenTimeout
NeedsToken(c) == authToken[c] = NoToken \/ Later(now, authTokenTimeout[c])

\* The body the auth service answers a granted token request with.
TokenResponse(c) ==
    [access_token |-> ClientId(c), expires_at |-> IsoString(now + TokenTtl)]

\* getToken: a token is fetched when the slot is empty or the stored expiry
\* has passed; it names the credentials it was obtained with.
GetToken(c) == IF NeedsToken(c) THEN TokenResponse(c).access_token ELSE authToken[c]

\* A faulty token slot: one for all Clients of the process.
TokenAfterFetchShared(c) == [x \in Clients |-> GetToken(c)]

\* oauthFetch leaves the token it used in the slot.
TokenAfterFetch(c) == [authToken EXCEPT ![c] = GetToken(c)]

\* A faulty getToken: the token is taken to end as soon as it is stored.
TimeoutAfterFetchNow(c) ==
    [authTokenTimeout EXCEPT ![c] = IF NeedsToken(c) THEN now ELSE @]

\* getToken: _authTokenTimeout = Date.parse(json.expires_at) after a fetch.
TimeoutAfterFetch(c) ==
    [authTokenTimeout EXCEPT
        ![c] = IF NeedsToken(c) THEN DateParse(TokenResponse(c).expires_at) ELSE @]

NothingSent ==
    [token |-> "-", at |-> 0, fetched |-> FALSE, had |-> "-", hadExpiry |-> 0]

\* oauthFetch with a token request that is granted when one is made: the
\* storage request carries 'Bearer ' + token.
OauthFetch(c) ==
    /\ GetToken(c) # Undefined
    /\ authToken' = TokenAfterFetch(c)
    /\ authTokenTimeout' = TimeoutAfterFetch(c)
    /\ srvExpiry' = [srvExpiry EXCEPT
                       ![c] = IF NeedsToken(c) THEN now + TokenTtl ELSE @]
    /\ sent' = [sent EXCEPT ![c] = [token |-> GetToken(c), at |-> now,
                                     fetched |-> NeedsToken(c), had |-> authToken[c],
                                     hadExpiry |-> srvExpiry[c]]]
    /\ UNCHANGED now

\* The EAKInfo the server answers to GET access_keys/{W}/{U}/{R}/{T}.
EakInfoOf(q) ==
    [eak |-> srvEak[q].eak, authorizerPublicKey |-> PublicKey(srvEak[q].authorizer)]

\* Whether the server lets `who` read the records of (writer, user, type).
MayRead(who, writer, user, type) ==
    \/ who = writer
    \/ /\ <<writer, user, who, type>> \in Quads
       /\ srvPolicy[<<writer, user, who, type>>] = "allow"

----------------------------------------------------------------------------
(* Calls *)

IdleProc ==
    [op |-> "none", pc |-> "idle", phase |-> "-", type |-> "-", val |-> "-",
     reader |-> "-", rid |-> 0, ver |-> 0, all |-> FALSE, ak |-> 0, body |-> NoRec,
     out |-> "none", ret |-> NoRec, n |-> 0, seen |-> "-", want |-> "-",
     \* the QueryResult a next() call runs on: query.data, query.count,
     \* afterIndex, done
     data |-> FALSE, count |-> 0, afterIndex |-> 0, done |-> FALSE,
     \* history of that QueryResult: the last_index of the last page with
     \* results it received, the records received so far, whether a page
     \* brought a record again, the records its next() calls returned
     lastIndex |-> 0, received |-> {}, again |-> FALSE, returned |-> <<>>,
     \* history: the key the call got from Crypto.randomKey()
     made |-> 0,
     \* history: the endpoint a delete addressed; the status of the last
     \* response the call received
     url |-> "-", status |-> 0,
     \* history of a decrypt: how the record passed in came about, and the
     \* signerSigningKey of the EAKInfo passed in
     tamper |-> "-", signer |-> "-",
     \* a stringify() call: the document as its caller built it (the
     \* properties in the order they were set) and the string returned
     doc |-> <<>>, str |-> <<>>,
     \* a signature check: the (meta, data) pair that was signed, the pair
     \* the signature is verified for, the signature and the verdict
     info |-> NoInfo, other |-> NoInfo, sig |-> NoSig, verified |-> FALSE,
     \* the backup or register call this call runs in ("-" for none);
     \* register's backup argument, whether cryptoKeys.privateKey is not
     \* null, whether the answer carried X-Backup-Client, the ClientDetails
     \* decoded from the answer; what the outer call resolved with, and
     \* whether backup() ran to its end
     outer |-> "-", backup |-> FALSE, hasKey |-> FALSE, header |-> FALSE,
     details |-> "-", resolved |-> "-", backedUp |-> FALSE,
     \* a next() in flight: the after_index its search request carries
     after |-> 0]

\* The call resolves (out = "ok") or rejects (out = the error).
Done(pr, out, ret) ==
    [pr EXCEPT !.pc = "idle", !.phase = "-", !.ak = 0, !.body = NoRec,
               !.out = out, !.ret = ret]

\* New Clients against an empty service, with the given calls under way.
InitState(versions, calls) ==
    /\ srvEak = [q \in Quads |-> NoEak]
    /\ srvPolicy = [q \in Quads |-> "none"]
    /\ srvRecords = [r \in Rids |-> NoRec]
    /\ config = versions
    /\ akCache = [c \in Clients |-> [k \in CacheKeys |-> 0]]
    /\ authToken = [c \in Clients |-> NoToken]
    /\ authTokenTimeout = [c \in Clients |-> 0]
    /\ srvExpiry = [c \in Clients |-> 0]
    /\ now = 0
    /\ sent = [c \in Clients |-> NothingSent]
    /\ proc = calls
    /\ nextKey = 0
    /\ wire = "none"
    /\ grant = [g \in Writers \X Clients \X Types |-> "none"]
    /\ lastData = [r \in Rids |-> "-"]

InitWith(versions) == InitState(versions, [p \in Procs |-> IdleProc])

\* Clients registered with signing keys: config.version = 2.
Init == InitWith([c \in Clients |-> 2])

\* Clients of either version: a Config without signing keys has version 1.
Versions == {1, 2}
InitSign == \E versions \in [Clients -> Versions] : InitWith(versions)

----------------------------------------------------------------------------
(* The access-key manager: getAccessKey, putAccessKey, deleteAccessKey *)

\* getAccessKey's cache key `${writerId}.${userId}.${type}`: no reader in it.
CacheKey(writerId, userId, readerId, type) == <<writerId, userId, type>>

\* The access key a call is after: decryptRecord and encryptRecord ask for
\* the record's (writer, user, type) with the client as reader; share and
\* createWriterKey ask for the client's own key of the type.
AkQuad(pr, c) ==
    IF pr.phase \in {"enc", "dec"}
    THEN <<pr.body.writer, pr.body.user, ClientId(c), pr.body.type>>
    ELSE <<ClientId(c), ClientId(c), ClientId(c), pr.type>>

\* A faulty share: the reader's EAK is put for the sharing client itself.
PutReaderSelf(pr, c) == ClientId(c)

\* The reader putAccessKey wraps the key for.
PutReader(pr, c) == IF pr.phase = "reader" THEN pr.reader ELSE ClientId(c)

PutQuad(pr, c) ==
    IF pr.phase = "enc"
    THEN <<pr.body.writer, pr.body.user, PutReader(pr, c), pr.body.type>>
    ELSE <<ClientId(c), ClientId(c), PutReader(pr, c), pr.type>>

\* backup() once its write has resolved: share('tozny.key_backup', clientId).
\* The write has just left the type's key `ak` in the cache, so share's
\* getAccessKey answers from it and share goes on to the reader's
\* putAccessKey; a share with the client itself resolves at once and backup
\* goes on to its notification.
BackupShare(pr, ak) ==
    IF pr.reader = pr.body.writer
    THEN [pr EXCEPT !.op = "share", !.phase = "-", !.body = NoRec, !.pc = "notify"]
    ELSE [pr EXCEPT !.op = "share", !.phase = "reader", !.body = NoRec, !.ak = ak,
                    !.pc = "getClient"]

\* What a call does once it holds a non-null access key `ak`.
AfterAk(pr, ak, dk) ==
    CASE pr.phase = "enc" ->
           [pr EXCEPT !.ak = ak, !.body = EncryptRecord(pr.body, ak, dk),
                      !.pc = IF pr.op = "update" THEN "putRecord" ELSE "postRecord"]
      [] pr.phase = "dec" ->
           IF DecryptRecord(pr.body, ak).data.form = "error"
           THEN Done(pr, "DecryptError", NoRec)
           ELSE IF pr.outer # "-" /\ pr.op = "write"
           THEN BackupShare(pr, ak)
           ELSE Done(pr, "ok", DecryptRecord(pr.body, ak))
      [] pr.phase = "own" ->
           [pr EXCEPT !.ak = ak, !.pc = "getClient", !.phase = "reader"]
      [] OTHER -> Done(pr, "ok", NoRec)

\* A faulty getAccessKey: it asks the server whatever the cache holds.
EnterGetAccessKeyNoCache(pr, c, dk) == [pr EXCEPT !.pc = "getAk"]

\* getAccessKey up to its first await: a cache hit answers at once.
EnterGetAccessKey(pr, c, dk) ==
    IF akCache[c][CacheKey(AkQuad(pr, c)[1], AkQuad(pr, c)[2], AkQuad(pr, c)[3], AkQuad(pr, c)[4])] # 0
    THEN AfterAk(pr, akCache[c][CacheKey(AkQuad(pr, c)[1], AkQuad(pr, c)[2],
                                         AkQuad(pr, c)[3], AkQuad(pr, c)[4])], dk)
    ELSE [pr EXCEPT !.pc = "getAk"]

\* getAccessKey(client, writerId, userId, readerId, type) run to its end
\* against the present server state: the cached key, else null (0) on 404,
\* else the unsealed key.
GetAccessKey(c, writerId, userId, readerId, type) ==
    IF akCache[c][CacheKey(writerId, userId, readerId, type)] # 0
    THEN akCache[c][CacheKey(writerId, userId, readerId, type)]
    ELSE IF srvEak[<<writerId, userId, readerId, type>>] = NoEak
    THEN 0
    ELSE DecryptEak(PrivateKey(c), EakInfoOf(<<writerId, userId, readerId, type>>))

\* A faulty share: once the own key is stored the policy is put, and the
\* reader's EAK never is.
AfterPutPolicyOnly(pr, dk) ==
    CASE pr.phase = "enc" ->
           [pr EXCEPT !.body = EncryptRecord(pr.body, pr.ak, dk),
                      !.pc = IF pr.op = "update" THEN "putRecord" ELSE "postRecord"]
      [] pr.phase = "own" -> [pr EXCEPT !.pc = "putPolicy", !.phase = "reader"]
      [] pr.phase = "reader" -> [pr EXCEPT !.pc = "putPolicy"]
      [] OTHER -> Done(pr, "ok", NoRec)

\* What a call does once putAccessKey has resolved.
AfterPut(pr, dk) ==
    CASE pr.phase = "enc" ->
           [pr EXCEPT !.body = EncryptRecord(pr.body, pr.ak, dk),
                      !.pc = IF pr.op = "update" THEN "putRecord" ELSE "postRecord"]
      [] pr.phase = "own" -> [pr EXCEPT !.pc = "getClient", !.phase = "reader"]
      [] pr.phase = "reader" -> [pr EXCEPT !.pc = "putPolicy"]
      [] OTHER -> Done(pr, "ok", NoRec)

\* A faulty share: with no key of its own it goes on to the reader's
\* putAccessKey with the null it got.
AfterNoAkNull(pr, key) ==
    IF pr.phase = "own"
    THEN [pr EXCEPT !.ak = 0, !.pc = "getClient", !.phase = "reader"]
    ELSE [pr EXCEPT !.ak = key, !.pc = "getClient", !.made = key]

\* What write, update, share and createWriterKey do when getAccessKey
\* resolved null: ak = await Crypto.randomKey(), then putAccessKey for the
\* client itself.
AfterNoAk(pr, key) == [pr EXCEPT !.ak = key, !.pc = "getClient", !.made = key]

\* GET access_keys answered: 404 is "no key", 2xx is unsealed and cached.
DoGetAccessKey(p) ==
    LET c == Owner(p)
        state == IF proc[p].op = "read" /\ proc[p].pc = "getAk"
                 THEN grant[<<proc[p].body.writer, ClientId(c), proc[p].body.type>>]
                 ELSE proc[p].seen
        pr == [proc[p] EXCEPT !.seen = IF @ = state THEN @ ELSE "changed"]
        q == AkQuad(pr, c)
        status == IF srvEak[q] = NoEak THEN 404 ELSE 200
        key == DecryptEak(PrivateKey(c), EakInfoOf(q))
        answered == [pr EXCEPT !.status = status]
    IN /\ pr.pc = "getAk"
       /\ OauthFetch(c)
       /\ UNCHANGED config
       /\ UNCHANGED <<srvEak, srvPolicy, srvRecords, wire, grant, lastData>>
       /\ IF status = 404
          THEN IF pr.phase = "dec"
               THEN /\ proc' = [proc EXCEPT ![p] = Done(answered, "NoAccess", NoRec)]
                    /\ UNCHANGED <<akCache, nextKey>>
               ELSE /\ nextKey < MaxKeys
                    /\ nextKey' = nextKey + 1
                    /\ proc' = [proc EXCEPT ![p] = AfterNoAk(answered, nextKey + 1)]
                    /\ UNCHANGED akCache
          ELSE IF key = OpenFailed
               THEN /\ proc' = [proc EXCEPT ![p] = Done(answered, "DecryptError", NoRec)]
                    /\ UNCHANGED <<akCache, nextKey>>
               ELSE /\ akCache' = [akCache EXCEPT ![c][CacheKey(q[1], q[2], q[3], q[4])] = key]
                    /\ \E dk \in DataKeys :
                         proc' = [proc EXCEPT ![p] = AfterAk(answered, key, dk)]
                    /\ UNCHANGED nextKey

\* getClient(clientId) answered 2xx: clientInfo resolves with the ClientInfo;
\* putAccessKey knows the reader's public key and goes on.
DoGetClient(p) ==
    LET c == Owner(p)
        pr == proc[p]
    IN /\ pr.pc = "getClient"
       /\ OauthFetch(c)
       /\ UNCHANGED config
       /\ proc' = [proc EXCEPT ![p] =
             IF pr.op = "clientInfo"
             THEN Done([pr EXCEPT !.status = 200], "ok", NoRec)
             ELSE [pr EXCEPT !.pc = "putAk", !.status = 200]]
       /\ UNCHANGED <<srvEak, srvPolicy, srvRecords, akCache, nextKey, wire, grant, lastData>>

\* PUT access_keys answered 2xx: the server stores the EAK, the cache entry
\* of (writer, user, type) is set to the key that was put.
DoPutAccessKey(p) ==
    LET c == Owner(p)
        pr == [proc[p] EXCEPT !.status = 200]
        q == PutQuad(pr, c)
        eak == EncryptAk(PrivateKey(c), pr.ak, PublicKey(PutReader(pr, c)))
    IN /\ pr.pc = "putAk"
       /\ OauthFetch(c)
       /\ UNCHANGED config
       /\ srvEak' = [srvEak EXCEPT ![q] = [eak |-> eak, authorizer |-> GetToken(c)]]
       /\ akCache' = [akCache EXCEPT ![c][CacheKey(q[1], q[2], q[3], q[4])] = pr.ak]
       /\ \E dk \in DataKeys : proc' = [proc EXCEPT ![p] = AfterPut(pr, dk)]
       /\ UNCHANGED <<srvPolicy, srvRecords, nextKey, wire, grant, lastData>>

\* A faulty deleteAccessKey: the cache entry stays.
DoDeleteAccessKeyKeepCache(p) ==
    LET c == Owner(p)
        pr == [proc[p] EXCEPT !.status = 204]
        q == <<ClientId(c), ClientId(c), pr.reader, pr.type>>
    IN /\ pr.pc = "delAk"
       /\ OauthFetch(c)
       /\ UNCHANGED config
       /\ srvEak' = [srvEak EXCEPT ![q] = NoEak]
       /\ proc' = [proc EXCEPT ![p] = Done(pr, "ok", NoRec)]
       /\ grant' = [grant EXCEPT ![<<ClientId(c), pr.reader, pr.type>>] = "revoked"]
       /\ UNCHANGED <<akCache, srvPolicy, srvRecords, nextKey, wire, lastData>>

\* DELETE access_keys answered 2xx: the EAK is gone, the cache entry of
\* (writer, user, type) is deleted, revoke resolves.
DoDeleteAccessKey(p) ==
    LET c == Owner(p)
        pr == [proc[p] EXCEPT !.status = 204]
        q == <<ClientId(c), ClientId(c), pr.reader, pr.type>>
    IN /\ pr.pc = "delAk"
       /\ OauthFetch(c)
       /\ UNCHANGED config
       /\ srvEak' = [srvEak EXCEPT ![q] = NoEak]
       /\ akCache' = [akCache EXCEPT ![c][CacheKey(q[1], q[2], q[3], q[4])] = 0]
       /\ proc' = [proc EXCEPT ![p] = Done(pr, "ok", NoRec)]
       /\ grant' = [grant EXCEPT ![<<ClientId(c), pr.reader, pr.type>>] = "revoked"]
       /\ UNCHANGED <<srvPolicy, srvRecords, nextKey, wire, lastData>>

----------------------------------------------------------------------------
(* Records: write, update, read *)

FreeRids == {r \in Rids : srvRecords[r] = NoRec}

\* write/writeRaw calls that have not had their record stored yet.
PendingWrites ==
    {q \in Procs : /\ proc[q].op \in {"write", "writeRaw"}
                   /\ proc[q].pc # "idle"
                   /\ proc[q].body.rid = 0}

\* The record id the server gives the next stored record.
NewRid == CHOOSE r \in FreeRids : \A o \in FreeRids : r <= o

\* The version PUT records/safe/{id}/{version} is addressed to.
UpdateVersion(record) == record.version

\* write(type, data): Meta(clientId, clientId, type), then encryptRecord.
StartWrite(p, t, v) ==
    LET c == Owner(p)
        pr == [IdleProc EXCEPT !.op = "write", !.type = t, !.val = v, !.phase = "enc",
                 !.body = Signed(c, [rid |-> 0, writer |-> ClientId(c),
                                     user |-> ClientId(c), type |-> t,
                                     data |-> PlainField(v), version |-> 0,
                                     signature |-> NoSig])]
    IN /\ proc[p].pc = "idle"
       /\ c \in Writers
       /\ Cardinality(FreeRids) > Cardinality(PendingWrites)
       /\ \E dk \in DataKeys : proc' = [proc EXCEPT ![p] = EnterGetAccessKey(pr, c, dk)]
       /\ UNCHANGED <<srvEak, srvPolicy, srvRecords, akCache, config, tokenVars, nextKey,
                      wire, grant, lastData>>

\* update(record): the caller passes a record it holds, with new data; the
\* version it carries may be stale.
StartUpdate(p, rid, ver, v) ==
    LET c == Owner(p)
        held == [srvRecords[rid] EXCEPT !.data = PlainField(v), !.version = ver]
        pr == [IdleProc EXCEPT !.op = "update", !.type = held.type, !.val = v,
                 !.rid = held.rid, !.ver = UpdateVersion(held), !.phase = "enc",
                 !.body = Signed(c, held)]
    IN /\ proc[p].pc = "idle"
       /\ srvRecords[rid] # NoRec
       /\ srvRecords[rid].writer = ClientId(c)
       /\ ver \in 1..srvRecords[rid].version
       /\ ver < MaxVersion
       /\ \E dk \in DataKeys : proc' = [proc EXCEPT ![p] = EnterGetAccessKey(pr, c, dk)]
       /\ UNCHANGED <<srvEak, srvPolicy, srvRecords, akCache, config, tokenVars, nextKey,
                      wire, grant, lastData>>

\* read(recordId)
StartRead(p, rid) ==
    /\ proc[p].pc = "idle"
    /\ srvRecords[rid] # NoRec
    /\ proc' = [proc EXCEPT ![p] = [IdleProc EXCEPT !.op = "read", !.rid = rid,
                                                    !.pc = "getRecord"]]
    /\ UNCHANGED <<srvEak, srvPolicy, srvRecords, akCache, config, tokenVars, nextKey,
                   wire, grant, lastData>>

\* POST records answered: the server stores the body as sent under a new id
\* and version and echoes it; the client decrypts the echo.
DoPostRecord(p) ==
    LET c == Owner(p)
        pr == proc[p]
        status == IF GetToken(c) = pr.body.writer THEN 201 ELSE 403
        written == [pr.body EXCEPT !.rid = NewRid, !.version = 1]
        answered == [pr EXCEPT !.status = status]
    IN /\ pr.pc = "postRecord"
       /\ FreeRids # {}
       /\ OauthFetch(c)
       /\ UNCHANGED config
       /\ wire' = pr.body.data.form
       /\ UNCHANGED <<srvEak, srvPolicy, akCache, nextKey, grant>>
       /\ IF CheckStatus(status)
          THEN /\ srvRecords' = [srvRecords EXCEPT ![NewRid] = written]
               /\ lastData' = [lastData EXCEPT ![NewRid] = pr.val]
               /\ \E dk \in DataKeys :
                    proc' = [proc EXCEPT ![p] =
                       EnterGetAccessKey([answered EXCEPT !.phase = "dec",
                                                          !.body = written], c, dk)]
          ELSE /\ proc' = [proc EXCEPT ![p] = Done(answered, StatusText(status), NoRec)]
               /\ UNCHANGED <<srvRecords, lastData>>

\* PUT records/safe/{id}/{version} answered: 409 on a version that is not the
\* stored one, else the record is replaced and gets a new version.
DoPutRecord(p) ==
    LET c == Owner(p)
        pr == proc[p]
        old == srvRecords[pr.rid]
        status == IF old = NoRec THEN 404
                  ELSE IF GetToken(c) # old.writer THEN 403
                  ELSE IF old.version # pr.ver THEN 409
                  ELSE 200
        written == [pr.body EXCEPT !.rid = pr.rid, !.version = old.version + 1]
        answered == [pr EXCEPT !.status = status]
    IN /\ pr.pc = "putRecord"
       /\ OauthFetch(c)
       /\ UNCHANGED config
       /\ wire' = pr.body.data.form
       /\ UNCHANGED <<srvEak, srvPolicy, akCache, nextKey, grant>>
       /\ IF CheckStatus(status)
          THEN /\ srvRecords' = [srvRecords EXCEPT ![pr.rid] = written]
               /\ lastData' = [lastData EXCEPT ![pr.rid] = pr.val]
               /\ \E dk \in DataKeys :
                    proc' = [proc EXCEPT ![p] =
                       EnterGetAccessKey([answered EXCEPT !.phase = "dec",
                                                          !.body = written], c, dk)]
          ELSE /\ proc' = [proc EXCEPT ![p] = Done(answered, StatusText(status), NoRec)]
               /\ UNCHANGED <<srvRecords, lastData>>

\* GET records/{id} answered: the server serves the record to its writer and
\* to the readers the policy allows; the client decrypts it.
DoGetRecord(p) ==
    LET c == Owner(p)
        pr == proc[p]
        rec == srvRecords[pr.rid]
        status == IF rec = NoRec THEN 404
                  ELSE IF ~MayRead(GetToken(c), rec.writer, rec.user, rec.type) THEN 403
                  ELSE 200
        got == [pr EXCEPT !.phase = "dec", !.body = rec, !.status = status,
                          !.seen = IF rec = NoRec THEN "-"
                                    ELSE grant[<<rec.writer, ClientId(c), rec.type>>],
                          !.want = lastData[pr.rid]]
    IN /\ pr.pc = "getRecord"
       /\ OauthFetch(c)
       /\ UNCHANGED config
       /\ UNCHANGED <<srvEak, srvPolicy, srvRecords, akCache, nextKey, wire, grant, lastData>>
       /\ IF CheckStatus(status)
          THEN \E dk \in DataKeys :
                  proc' = [proc EXCEPT ![p] = EnterGetAccessKey(got, c, dk)]
          ELSE proc' = [proc EXCEPT ![p] = Done(got, StatusText(status), NoRec)]

----------------------------------------------------------------------------
(* Records: delete *)

\* delete(recordId, version = null): the unconditional endpoint, or the safe
\* one when a version is given (0 stands for null).
DeleteUrl(version) == IF version # 0 THEN "records/safe/id/version" ELSE "records/id"

\* The statuses DELETE may be answered with: the record is removed (204)
\* when the caller wrote it and, on the safe endpoint, the version is the
\* stored one; 409 on another version; 403 for a record of another writer;
\* for a record that is not stored the answer is one of 403, 404, 410; 500
\* whenever the service fails.
DeleteStatuses(who, rid, version) ==
    LET rec == srvRecords[rid]
    IN {500} \cup
       (IF rec = NoRec THEN {403, 404, 410}
        ELSE IF rec.writer # who THEN {403}
        ELSE IF version # 0 /\ version # rec.version THEN {409}
        ELSE {204})

\* A faulty delete: 404 counts as deleted as well.
DeleteOutcomeLax(status) ==
    CASE status \in {204, 403, 404} -> "ok"
      [] status = 409 -> "Conflict"
      [] OTHER -> "Error while deleting record data!"

\* delete's switch on response.status.
DeleteOutcome(status) ==
    CASE status \in {204, 403} -> "ok"
      [] status = 409 -> "Conflict"
      [] OTHER -> "Error while deleting record data!"

\* delete(recordId, version): the caller passes the id of a record and no
\* version, or a version it has seen (which may be stale).
StartDelete(p, rid, ver) ==
    /\ proc[p].pc = "idle"
    /\ proc' = [proc EXCEPT ![p] = [IdleProc EXCEPT !.op = "delete", !.rid = rid,
                                       !.ver = ver, !.url = DeleteUrl(ver),
                                       !.pc = "delRecord"]]
    /\ UNCHANGED <<srvEak, srvPolicy, srvRecords, akCache, config, tokenVars, nextKey,
                   wire, grant, lastData>>

\* DELETE answered: delete resolves true or throws by the status alone.
DoDeleteRecord(p) ==
    LET c == Owner(p)
        pr == proc[p]
    IN /\ pr.pc = "delRecord"
       /\ OauthFetch(c)
       /\ UNCHANGED config
       /\ \E status \in DeleteStatuses(GetToken(c), pr.rid,
                                        IF pr.url = DeleteUrl(0) THEN 0 ELSE pr.ver) :
            /\ srvRecords' = IF status = 204
                             THEN [srvRecords EXCEPT ![pr.rid] = NoRec]
                             ELSE srvRecords
            /\ proc' = [proc EXCEPT ![p] =
                  [Done(pr, DeleteOutcome(status), NoRec) EXCEPT !.status = status]]
       /\ UNCHANGED <<srvEak, srvPolicy, akCache, nextKey, wire, grant, lastData>>

----------------------------------------------------------------------------
(* Sharing: share, revoke *)

\* EMAIL.test(readerId)
IsEmail(readerId) == readerId = EmailReader

\* The message of the Error clientInfo throws for an email address.
EmailLookupUnsupported == "Client discovery by email address is not supported"

\* The first version's clientInfo: an email address is looked up with a
\* request to the server.
ClientInfoV1(pr, clientId) == [pr EXCEPT !.pc = "getClient"]

\* clientInfo(clientId) up to its first await: an email address throws,
\* anything else is looked up with getClient.
ClientInfo(pr, clientId) ==
    IF IsEmail(clientId)
    THEN Done(pr, EmailLookupUnsupported, NoRec)
    ELSE [pr EXCEPT !.pc = "getClient"]

StartClientInfo(p, clientId) ==
    LET pr == [IdleProc EXCEPT !.op = "clientInfo", !.reader = clientId]
    IN /\ proc[p].pc = "idle"
       /\ proc' = [proc EXCEPT ![p] = ClientInfo(pr, clientId)]
       /\ UNCHANGED <<srvEak, srvPolicy, srvRecords, akCache, config, tokenVars, nextKey,
                      wire, grant, lastData>>

\* A faulty share: the reader is not compared with the client itself.
StartShareWithSelf(p, t, r) ==
    LET c == Owner(p)
        pr == [IdleProc EXCEPT !.op = "share", !.type = t, !.reader = r, !.phase = "own"]
    IN /\ proc[p].pc = "idle"
       /\ c \in Writers
       /\ UNCHANGED <<srvEak, srvPolicy, srvRecords, akCache, config, tokenVars, nextKey,
                      wire, lastData>>
       /\ IF IsEmail(r)
          THEN /\ proc' = [proc EXCEPT ![p] = ClientInfo(pr, r)]
               /\ UNCHANGED grant
          ELSE /\ \E dk \in DataKeys :
                    proc' = [proc EXCEPT ![p] = EnterGetAccessKey(pr, c, dk)]
               /\ grant' = [grant EXCEPT ![<<ClientId(c), r, t>>] = "busy"]

\* share(type, readerId): own key (created when absent), the reader's EAK,
\* then the allow policy.
StartShare(p, t, r) ==
    LET c == Owner(p)
        pr == [IdleProc EXCEPT !.op = "share", !.type = t, !.reader = r, !.phase = "own"]
    IN /\ proc[p].pc = "idle"
       /\ c \in Writers
       /\ UNCHANGED <<srvEak, srvPolicy, srvRecords, akCache, config, tokenVars, nextKey,
                      wire, lastData>>
       /\ IF r = ClientId(c)
          THEN /\ proc' = [proc EXCEPT ![p] = Done(pr, "ok", NoRec)]
               /\ UNCHANGED grant
          ELSE IF IsEmail(r)
          THEN /\ proc' = [proc EXCEPT ![p] = ClientInfo(pr, r)]
               /\ UNCHANGED grant
          ELSE /\ \E dk \in DataKeys :
                    proc' = [proc EXCEPT ![p] = EnterGetAccessKey(pr, c, dk)]
               /\ grant' = [grant EXCEPT ![<<ClientId(c), r, t>>] = "busy"]

\* A faulty revoke: the reader's EAK is deleted and the policy is left alone.
StartRevokeKeyFirst(p, t, r) ==
    LET c == Owner(p)
        pr == [IdleProc EXCEPT !.op = "revoke", !.type = t, !.reader = r]
    IN /\ proc[p].pc = "idle"
       /\ c \in Writers
       /\ UNCHANGED <<srvEak, srvPolicy, srvRecords, akCache, config, tokenVars, nextKey,
                      wire, lastData>>
       /\ IF r = ClientId(c)
          THEN /\ proc' = [proc EXCEPT ![p] = Done(pr, "ok", NoRec)]
               /\ UNCHANGED grant
          ELSE IF IsEmail(r)
          THEN /\ proc' = [proc EXCEPT ![p] = ClientInfo(pr, r)]
               /\ UNCHANGED grant
          ELSE /\ proc' = [proc EXCEPT ![p] = [pr EXCEPT !.pc = "delAk"]]
               /\ grant' = [grant EXCEPT ![<<ClientId(c), r, t>>] = "busy"]

\* revoke(type, readerId): the deny policy, then the reader's EAK is deleted.
StartRevoke(p, t, r) ==
    LET c == Owner(p)
        pr == [IdleProc EXCEPT !.op = "revoke", !.type = t, !.reader = r]
    IN /\ proc[p].pc = "idle"
       /\ c \in Writers
       /\ UNCHANGED <<srvEak, srvPolicy, srvRecords, akCache, config, tokenVars, nextKey,
                      wire, lastData>>
       /\ IF r = ClientId(c)
          THEN /\ proc' = [proc EXCEPT ![p] = Done(pr, "ok", NoRec)]
               /\ UNCHANGED grant
          ELSE IF IsEmail(r)
          THEN /\ proc' = [proc EXCEPT ![p] = ClientInfo(pr, r)]
               /\ UNCHANGED grant
          ELSE /\ proc' = [proc EXCEPT ![p] = [pr EXCEPT !.pc = "putPolicy"]]
               /\ grant' = [grant EXCEPT ![<<ClientId(c), r, t>>] = "busy"]

\* PUT policy answered 2xx: share resolves (inside backup, the notification
\* is next); revoke goes on to deleteAccessKey.
DoPutPolicy(p) ==
    LET c == Owner(p)
        pr == [proc[p] EXCEPT !.status = 200]
        q == <<ClientId(c), ClientId(c), pr.reader, pr.type>>
    IN /\ pr.pc = "putPolicy"
       /\ OauthFetch(c)
       /\ UNCHANGED config
       /\ UNCHANGED <<srvEak, srvRecords, akCache, nextKey, wire, lastData>>
       /\ IF pr.op = "share"
          THEN /\ srvPolicy' = [srvPolicy EXCEPT ![q] = "allow"]
               /\ proc' = [proc EXCEPT ![p] = IF pr.outer # "-"
                                              THEN [pr EXCEPT !.pc = "notify"]
                                              ELSE Done(pr, "ok", NoRec)]
               /\ grant' = [grant EXCEPT ![<<ClientId(c), pr.reader, pr.type>>] = "shared"]
          ELSE /\ srvPolicy' = [srvPolicy EXCEPT ![q] = "deny"]
               /\ proc' = [proc EXCEPT ![p] = [pr EXCEPT !.pc = "delAk"]]
               /\ UNCHANGED grant

----------------------------------------------------------------------------
(* Query: query(data, writer, null, type, null, pageSize) and the next()    *)
(* calls on the QueryResult it returns (afterIndex = 0, done = false)       *)

\* The records POST search matches: those of the type written by the
\* caller, or with writer = 'all' those the caller may read.
SearchResults(who, t, allWriters) ==
    {r \in Rids : /\ srvRecords[r] # NoRec
                  /\ srvRecords[r].type = t
                  /\ IF allWriters
                     THEN MayRead(who, srvRecords[r].writer, srvRecords[r].user, t)
                     ELSE srvRecords[r].writer = who}

\* The page the server answers: the first `count` matches after after_index,
\* in the order of their index (the record id here).
PageOf(matches, afterIndex, count) ==
    {r \in matches : /\ r > afterIndex
                     /\ Cardinality({x \in matches : x > afterIndex /\ x < r}) < count}

\* response.last_index: the index of the last result of the page.
LastIndex(page) == CHOOSE r \in page : \A x \in page : x <= r

RECURSIVE InOrder(_)
\* response.results: the page in index order.
InOrder(page) ==
    IF page = {} THEN <<>>
    ELSE LET first == CHOOSE r \in page : \A x \in page : r <= x
         IN <<first>> \o InOrder(page \ {first})

\* query(...) and the first next() on its QueryResult, up to the request.
StartQueryNext(p, t, allWriters, data, count) ==
    /\ proc[p].pc = "idle"
    /\ proc' = [proc EXCEPT ![p] = [IdleProc EXCEPT !.op = "next", !.type = t,
                                       !.all = allWriters, !.data = data,
                                       !.count = count, !.pc = "search"]]
    /\ UNCHANGED <<srvEak, srvPolicy, srvRecords, akCache, config, tokenVars, nextKey,
                   wire, grant, lastData>>

\* A faulty next(): done is not looked at, a request is sent every time.
QueryResultNextAlways(p) ==
    /\ proc[p].pc = "idle"
    /\ proc[p].op = "next"
    /\ proc' = [proc EXCEPT ![p] = [proc[p] EXCEPT !.pc = "search", !.out = "none", !.n = 0]]
    /\ UNCHANGED <<srvEak, srvPolicy, srvRecords, akCache, config, tokenVars, nextKey,
                   wire, grant, lastData>>

\* A further next() on the QueryResult of the caller's last call: [] at once
\* when done, else a request with after_index = this.afterIndex.
QueryResultNext(p) ==
    /\ proc[p].pc = "idle"
    /\ proc[p].op = "next"
    /\ proc' = [proc EXCEPT ![p] =
          IF proc[p].done
          THEN [proc[p] EXCEPT !.out = "ok", !.n = 0]
          ELSE [proc[p] EXCEPT !.pc = "search", !.out = "none", !.n = 0]]
    /\ UNCHANGED <<srvEak, srvPolicy, srvRecords, akCache, config, tokenVars, nextKey,
                   wire, grant, lastData>>

\* A faulty next(): afterIndex is assigned before the page is decrypted.
NextRejectsAdvanced(got) ==
    [Done(got, "TypeError", NoRec) EXCEPT !.afterIndex = got.lastIndex]

\* next() when the decrypting callback throws: Promise.all rejects and the
\* statements after it, the assignment of afterIndex among them, do not run.
NextRejects(got) == Done(got, "TypeError", NoRec)

\* POST search answered: an empty page ends the iteration.  On a page with
\* results, without data the records are returned and afterIndex becomes
\* last_index; with data the decrypting callback reads
\* this.config.privateKey, and a QueryResult has no config: the callback
\* throws, next() rejects and afterIndex is not assigned.
DoSearch(p) ==
    LET c == Owner(p)
        pr == [proc[p] EXCEPT !.status = 200]
        results == PageOf(SearchResults(GetToken(c), pr.type, pr.all),
                          pr.afterIndex, pr.count)
        got == [pr EXCEPT !.n = Cardinality(results),
                          !.lastIndex = LastIndex(results),
                          !.received = @ \cup results,
                          !.again = @ \/ (results \cap pr.received # {})]
    IN /\ pr.pc = "search"
       /\ OauthFetch(c)
       /\ UNCHANGED config
       /\ proc' = [proc EXCEPT ![p] =
             IF results = {}
             THEN [Done(pr, "ok", NoRec) EXCEPT !.n = 0, !.done = TRUE]
             ELSE IF pr.data
             THEN NextRejects(got)
             ELSE [Done(got, "ok", NoRec) EXCEPT
                      !.afterIndex = LastIndex(results),
                      !.returned = @ \o InOrder(results)]]
       /\ UNCHANGED <<srvEak, srvPolicy, srvRecords, akCache, nextKey, wire, grant, lastData>>

----------------------------------------------------------------------------
(* next() called again on a QueryResult before the last call has settled *)

\* The call that made the QueryResult and keeps it; any call of the Client
\* may run next() on it.
Holder == "p1"

\* next() on the Holder's QueryResult: [] at once when done, else a search
\* request carrying the afterIndex the QueryResult has at this moment.
OverlapNext(p) ==
    LET q == proc[Holder]
    IN /\ proc[p].pc = "idle"
       /\ q.op = "next"
       /\ proc' = [proc EXCEPT ![p] =
             IF q.done
             THEN [proc[p] EXCEPT !.op = "next", !.out = "ok", !.n = 0, !.status = 0]
             ELSE [proc[p] EXCEPT !.op = "next", !.pc = "search", !.out = "none",
                                  !.n = 0, !.status = 0, !.after = q.afterIndex]]
       /\ UNCHANGED <<srvEak, srvPolicy, srvRecords, akCache, config, tokenVars, nextKey,
                      wire, grant, lastData>>

\* The search of call p answered: done or afterIndex of the Holder's
\* QueryResult are assigned as in DoSearch, whatever other calls have
\* assigned in between.
OverlapSearch(p) ==
    LET c == Owner(p)
        q == proc[Holder]
        results == PageOf(SearchResults(GetToken(c), q.type, q.all), proc[p].after, q.count)
        assigned == IF results = {} THEN [q EXCEPT !.done = TRUE]
                    ELSE IF q.data THEN q
                    ELSE [q EXCEPT !.afterIndex = LastIndex(results),
                                   !.lastIndex = LastIndex(results),
                                   !.received = @ \cup results,
                                   !.again = @ \/ (results \cap q.received # {}),
                                   !.returned = @ \o InOrder(results)]
        held == [proc EXCEPT ![Holder] = assigned]
    IN /\ proc[p].pc = "search"
       /\ q.op = "next"
       /\ OauthFetch(c)
       /\ UNCHANGED config
       /\ proc' = [held EXCEPT ![p] =
             [held[p] EXCEPT !.pc = "idle", !.status = 200,
                             !.n = IF q.data THEN 0 ELSE Cardinality(results),
                             !.out = IF results # {} /\ q.data THEN "TypeError" ELSE "ok"]]
       /\ UNCHANGED <<srvEak, srvPolicy, srvRecords, akCache, nextKey, wire, grant, lastData>>

----------------------------------------------------------------------------
(* Offline calls: createWriterKey, encrypt, writeRaw *)

\* createWriterKey(type): the caller's own key of the type, created when
\* absent; resolves with an EAKInfo wrapping it for the caller.
StartCreateWriterKey(p, t) ==
    LET c == Owner(p)
        pr == [IdleProc EXCEPT !.op = "createWriterKey", !.type = t, !.phase = "cwk"]
    IN /\ proc[p].pc = "idle"
       /\ c \in Writers
       /\ \E dk \in DataKeys : proc' = [proc EXCEPT ![p] = EnterGetAccessKey(pr, c, dk)]
       /\ UNCHANGED <<srvEak, srvPolicy, srvRecords, akCache, config, tokenVars, nextKey,
                      wire, grant, lastData>>

\* _getCachedAk(writerId, userId, readerId, type, eak): the cached key, else
\* the caller's EAK is unsealed and cached.
GetCachedAk(c, writerId, userId, readerId, type, eakInfo) ==
    IF akCache[c][<<writerId, userId, type>>] # 0
    THEN akCache[c][<<writerId, userId, type>>]
    ELSE DecryptEak(PrivateKey(c), eakInfo)

\* An EAKInfo the caller built itself, as the unit tests do: a key from
\* Crypto.randomKey() sealed with Crypto.encryptAk under its own key pair.
CraftedEak(c, key) ==
    [eak |-> EncryptAk(PrivateKey(c), key, PublicKey(ClientId(c))),
     authorizerPublicKey |-> PublicKey(ClientId(c))]

\* encrypt(type, data, eak): no request is sent.  The EAKInfo is one the
\* caller crafted around a fresh key (crafted = TRUE) or the one the server
\* holds for the caller (as createWriterKey and getReaderKey return it).
StartEncrypt(p, t, v, crafted) ==
    LET c == Owner(p)
        id == ClientId(c)
        eakInfo == IF crafted THEN CraftedEak(c, nextKey + 1)
                   ELSE EakInfoOf(<<id, id, id, t>>)
        ak == GetCachedAk(c, id, id, id, t, eakInfo)
        pr == [IdleProc EXCEPT !.op = "encrypt", !.type = t, !.val = v,
                 !.body = Signed(c, [rid |-> 0, writer |-> id, user |-> id, type |-> t,
                                     data |-> PlainField(v), version |-> 0,
                                     signature |-> NoSig])]
    IN /\ proc[p].pc = "idle"
       /\ c \in Writers
       /\ IF crafted THEN nextKey < MaxKeys ELSE srvEak[<<id, id, id, t>>] # NoEak
       /\ nextKey' = IF crafted THEN nextKey + 1 ELSE nextKey
       /\ IF ak = OpenFailed
          THEN /\ proc' = [proc EXCEPT ![p] = Done(pr, "DecryptError", NoRec)]
               /\ UNCHANGED akCache
          ELSE /\ akCache' = [akCache EXCEPT ![c][<<id, id, t>>] = ak]
               /\ \E dk \in DataKeys :
                    proc' = [proc EXCEPT ![p] = Done(pr, "ok", EncryptRecord(pr.body, ak, dk))]
       /\ UNCHANGED <<srvEak, srvPolicy, srvRecords, config, tokenVars, wire, grant, lastData>>

\* writeRaw(record): any Record instance passes the instanceof check and is
\* sent as it is: the record the caller's last encrypt() returned
\* (encrypted = TRUE), or a Record the caller built from plaintext data.
StartWriteRaw(p, t, v, encrypted) ==
    LET c == Owner(p)
        id == ClientId(c)
        record == IF encrypted THEN proc[p].ret
                  ELSE [rid |-> 0, writer |-> id, user |-> id, type |-> t,
                        data |-> PlainField(v), version |-> 0, signature |-> NoSig]
    IN /\ proc[p].pc = "idle"
       /\ c \in Writers
       /\ encrypted => /\ proc[p].op = "encrypt"
                       /\ proc[p].out = "ok"
                       /\ t = proc[p].ret.type
                       /\ v = proc[p].ret.data.val
       /\ Cardinality(FreeRids) > Cardinality(PendingWrites)
       /\ proc' = [proc EXCEPT ![p] = [IdleProc EXCEPT !.op = "writeRaw", !.type = t,
                                          !.val = v, !.body = record, !.pc = "postRecord"]]
       /\ UNCHANGED <<srvEak, srvPolicy, srvRecords, akCache, config, tokenVars, nextKey,
                      wire, grant, lastData>>

----------------------------------------------------------------------------
(* Offline calls: sign, decrypt *)

\* sign(document) on a RecordInfo the caller built: throws on a version-1
\* config, else the signature under config.privateSignKey.
StartSign(p, t, v) ==
    LET c == Owner(p)
        id == ClientId(c)
        info == [rid |-> 0, writer |-> id, user |-> id, type |-> t,
                 data |-> PlainField(v), version |-> 0, signature |-> NoSig]
        pr == [IdleProc EXCEPT !.op = "sign", !.type = t, !.val = v]
    IN /\ proc[p].pc = "idle"
       /\ proc' = [proc EXCEPT ![p] =
             IF config[c] = 1
             THEN Done(pr, "Cannot sign documents without a signing key!", NoRec)
             ELSE Done(pr, "ok", [info EXCEPT !.signature =
                                    SignDocument(Stringify(info), PrivateSignKey(c))])]
       /\ UNCHANGED <<srvEak, srvPolicy, srvRecords, akCache, config, tokenVars, nextKey,
                      wire, grant, lastData>>

\* eak.signerSigningKey === null
NoSignKey == "null"

\* The record a caller passes to decrypt: the one its last encrypt()
\* returned, or that record with another value sealed in its place under
\* the same key ("data"), with its signature taken off ("unsigned"), or with
\* another value signed by somebody else ("forged").
Tampered(record, tamper, c) ==
    LET other == CHOOSE v \in Values : v # record.data.val
        changed == [record EXCEPT !.data.val = other]
        forger == CHOOSE x \in Clients : x # c
    IN CASE tamper = "data" -> changed
         [] tamper = "unsigned" -> [record EXCEPT !.signature = NoSig]
         [] tamper = "forged" ->
              [changed EXCEPT !.signature =
                  SignDocument(<<record.writer, record.user, record.type, other>>,
                               PrivateSignKey(forger))]
         [] OTHER -> record

\* decrypt(record, eak): no request is sent.  The EAKInfo wraps the key the
\* record is sealed under, as the caller of encrypt() built it, and carries
\* the signer's public signing key or null.
StartDecrypt(p, tamper, signer) ==
    LET c == Owner(p)
        record == Tampered(proc[p].ret, tamper, c)
        eak == CraftedEak(c, record.data.ak)
        ak == GetCachedAk(c, record.writer, record.user, ClientId(c), record.type, eak)
        decrypted == DecryptRecord(record, ak)
        pr == [IdleProc EXCEPT !.op = "decrypt", !.type = record.type, !.body = record,
                               !.tamper = tamper, !.signer = signer]
    IN /\ proc[p].pc = "idle"
       /\ proc[p].op = "encrypt"
       /\ proc[p].out = "ok"
       /\ UNCHANGED <<srvEak, srvPolicy, srvRecords, config, tokenVars, nextKey,
                      wire, grant, lastData>>
       /\ IF signer = NoSignKey
          THEN /\ proc' = [proc EXCEPT ![p] =
                     [Done(pr, "EAKInfo has no signing key!", NoRec) EXCEPT !.body = record]]
               /\ UNCHANGED akCache
          ELSE IF ak = OpenFailed
          THEN /\ proc' = [proc EXCEPT ![p] =
                     [Done(pr, "DecryptError", NoRec) EXCEPT !.body = record]]
               /\ UNCHANGED akCache
          ELSE /\ akCache' = [akCache EXCEPT ![c][<<record.writer, record.user,
                                                    record.type>>] = ak]
               /\ proc' = [proc EXCEPT ![p] =
                     [(IF decrypted.data.form = "error"
                       THEN Done(pr, "DecryptError", NoRec)
                       ELSE IF decrypted.signature = NoSig
                       THEN Done(pr, "TypeError", NoRec)
                       ELSE IF ~VerifyDocumentSignature(Stringify(decrypted),
                                                       decrypted.signature, signer)
                       THEN Done(pr, "Document failed verification", NoRec)
                       ELSE Done(pr, "ok", decrypted))
                      EXCEPT !.body = record]]

----------------------------------------------------------------------------
(* Crypto.encryptRecord and Crypto.decryptRecord applied to a record and a  *)
(* key the caller supplies                                                  *)

\* The plaintext records a caller can hold: new ones (no recordId, no
\* version) and ones the server returned, as update is passed.
PlainRecords ==
    [rid : 0..MaxRecords, writer : Clients, user : Clients, type : Types,
     data : {PlainField(v) : v \in Values}, version : 0..MaxVersion,
     signature : {NoSig}]

\* Crypto.encryptRecord(record, accessKey) on the record the caller holds.
ApplyEncryptRecord(p) ==
    LET pr == proc[p]
    IN /\ pr.pc = "encryptRecord"
       /\ \E dk \in DataKeys :
             proc' = [proc EXCEPT ![p] =
                [pr EXCEPT !.ret = EncryptRecord(pr.body, pr.ak, dk),
                           !.pc = "decryptRecord"]]
       /\ UNCHANGED <<srvEak, srvPolicy, srvRecords, akCache, config, tokenVars, nextKey,
                      wire, grant, lastData>>

\* Crypto.decryptRecord(encrypted, accessKey) on what encryptRecord returned.
ApplyDecryptRecord(p) ==
    LET pr == proc[p]
        decrypted == DecryptRecord(pr.ret, pr.ak)
    IN /\ pr.pc = "decryptRecord"
       /\ proc' = [proc EXCEPT ![p] =
             [pr EXCEPT !.ret = decrypted, !.pc = "idle",
                        !.out = IF decrypted.data.form = "error"
                                THEN "DecryptError" ELSE "ok"]]
       /\ UNCHANGED <<srvEak, srvPolicy, srvRecords, akCache, config, tokenVars, nextKey,
                      wire, grant, lastData>>

----------------------------------------------------------------------------
(* Signable.stringify: JSON.stringify(sortObject(this.serializable()))      *)

\* The property names of the documents and their UTF-16 code units ("emoji"
\* is U+1F610, a surrogate pair).
DocKeys == {"9", "10", "AAA", "k1", "emoji"}
NestedKeys == {"9", "10", "emoji"}

CodeUnits(key) ==
    CASE key = "0" -> <<48>>
      [] key = "1" -> <<49>>
      [] key = "9" -> <<57>>
      [] key = "10" -> <<49, 48>>
      [] key = "AAA" -> <<65, 65, 65>>
      [] key = "k1" -> <<107, 49>>
      [] key = "emoji" -> <<55357, 56848>>
      [] key = "plain" -> <<112, 108, 97, 105, 110>>
      [] key = "type" -> <<116, 121, 112, 101>>
      [] key = "user_id" -> <<117, 115, 101, 114, 95, 105, 100>>
      [] key = "writer_id" -> <<119, 114, 105, 116, 101, 114, 95, 105, 100>>

RECURSIVE UnitsLess(_, _)
\* a < b on strings, as Array.prototype.sort compares them without a
\* compare function: code unit by code unit, a proper prefix first.
UnitsLess(a, b) ==
    IF b = <<>> THEN FALSE
    ELSE IF a = <<>> THEN TRUE
    ELSE IF Head(a) # Head(b) THEN Head(a) < Head(b)
    ELSE UnitsLess(Tail(a), Tail(b))

KeyLess(a, b) == UnitsLess(CodeUnits(a), CodeUnits(b))

RECURSIVE SortKeys(_)
\* keys.sort()
SortKeys(keys) ==
    IF keys = {} THEN <<>>
    ELSE LET first == CHOOSE k \in keys : \A o \in keys \ {k} : KeyLess(k, o)
         IN <<first>> \o SortKeys(keys \ {first})

RECURSIVE ToNumber(_)
\* The number a string of decimal digits denotes.
ToNumber(units) ==
    IF units = <<>> THEN 0
    ELSE 10 * ToNumber(SubSeq(units, 1, Len(units) - 1)) + (units[Len(units)] - 48)

\* A property name that is an integer index of the language: the canonical
\* decimal form of an integer (the names here are far below 2^32 - 1).
IsIndex(key) ==
    LET units == CodeUnits(key)
    IN /\ \A i \in DOMAIN units : units[i] >= 48 /\ units[i] <= 57
       /\ Len(units) = 1 \/ units[1] # 48

Index(key) == ToNumber(CodeUnits(key))

\* A property of an object: a string, or (typeof obj[key] === 'object') a
\* nested object.
StringEntry(key, val) == [key |-> key, kind |-> "string", val |-> val, obj |-> <<>>]
ObjectEntry(key, obj) == [key |-> key, kind |-> "object", val |-> "-", obj |-> obj]
\* A property whose value is null, and one whose value is an array of
\* strings (obj holds the elements): typeof gives 'object' for both.
NullEntry(key) == [key |-> key, kind |-> "null", val |-> "-", obj |-> <<>>]
ArrayEntry(key, elems) == [key |-> key, kind |-> "array", val |-> "-", obj |-> elems]

\* The property name of an array index.
IndexKey(i) == IF i = 0 THEN "0" ELSE "1"

\* An array as Object.keys(arr) and arr[key] show it: its indices are its
\* property names.
ArrayAsObject(elems) == [i \in DOMAIN elems |-> StringEntry(IndexKey(i - 1), elems[i])]

RECURSIVE Put(_, _)
\* obj[key] = value for a key the object does not have yet.  An object is
\* the sequence of its properties in the order Object.keys, for-in and
\* JSON.stringify go through them: the integer indices in ascending numeric
\* order first, then the other names in the order they were created.
Put(obj, entry) ==
    IF obj = <<>> THEN <<entry>>
    ELSE IF /\ IsIndex(entry.key)
            /\ \/ ~IsIndex(Head(obj).key)
               \/ Index(entry.key) < Index(Head(obj).key)
    THEN <<entry>> \o obj
    ELSE <<Head(obj)>> \o Put(Tail(obj), entry)

\* Object.keys(obj), as a set: sortObject sorts them before it uses them.
ObjectKeys(obj) == {obj[i].key : i \in DOMAIN obj}

\* obj[key]
Get(obj, key) == obj[CHOOSE i \in DOMAIN obj : obj[i].key = key]

RECURSIVE SortObject(_)
RECURSIVE FillSorted(_, _, _)
\* sortObject's loop: for (let key of keys) returner[key] = ...
FillSorted(obj, keys, returner) ==
    IF keys = <<>> THEN returner
    ELSE LET entry == Get(obj, Head(keys))
             value == IF entry.kind = "object"
                      THEN ObjectEntry(entry.key, SortObject(entry.obj))
                      ELSE IF entry.kind = "array"
                      THEN ObjectEntry(entry.key, SortObject(ArrayAsObject(entry.obj)))
                      ELSE entry
         IN FillSorted(obj, Tail(keys), Put(returner, value))

\* sortObject(obj): the properties are set on a new object in sorted order.
SortObject(obj) == FillSorted(obj, SortKeys(ObjectKeys(obj)), <<>>)

RECURSIVE JsonStringify(_)
RECURSIVE JsonMembers(_)
\* JSON.stringify(obj), as the sequence of its tokens: the members in the
\* object's property order.
JsonMembers(obj) ==
    IF obj = <<>> THEN <<>>
    ELSE <<Head(obj).key, ":">>
         \o (IF Head(obj).kind = "object"
             THEN JsonStringify(Head(obj).obj)
             ELSE <<Head(obj).val>>)
         \o (IF Tail(obj) = <<>> THEN <<>> ELSE <<",">>)
         \o JsonMembers(Tail(obj))

JsonStringify(obj) == <<"{">> \o JsonMembers(obj) \o <<"}">>

RECURSIVE Throws(_)
\* Whether sortObject(obj) throws: for a null property typeof obj[key] is
\* 'object', sortObject(null) is called and Object.keys(null) throws a
\* TypeError.
Throws(obj) ==
    \E i \in DOMAIN obj :
        \/ obj[i].kind = "null"
        \/ obj[i].kind = "object" /\ Throws(obj[i].obj)

\* Signable.stringify()
SignableStringify(obj) == JsonStringify(SortObject(obj))

RECURSIVE ObjectOf(_)
\* The object a caller gets by setting the given properties one after the
\* other on {} (or by writing them in that order in an object literal).
ObjectOf(entries) ==
    IF entries = <<>> THEN <<>>
    ELSE Put(ObjectOf(SubSeq(entries, 1, Len(entries) - 1)),
             IF entries[Len(entries)].kind = "object"
             THEN ObjectEntry(entries[Len(entries)].key,
                              ObjectOf(entries[Len(entries)].obj))
             ELSE entries[Len(entries)])

\* The orders in which the members of a set can be listed.
Orders(S) ==
    {s \in [1..Cardinality(S) -> S] : \A i, j \in 1..Cardinality(S) : s[i] = s[j] => i = j}

\* The documents stringify() is called on: any of the names, set in any
\* order, with string values; k1 may hold a nested object.
NestedDocs ==
    UNION {Orders({StringEntry(k, "v1") : k \in keys}) : keys \in SUBSET NestedKeys}

\* The document whose names are set in the given order: strings, but for
\* k1 when it holds the given nested document.
DocOf(order, isObject, nested) ==
    [i \in DOMAIN order |->
        IF order[i] = "k1" /\ isObject
        THEN ObjectEntry(order[i], nested)
        ELSE StringEntry(order[i], "v0")]

Docs ==
    {DocOf(order, isObject, nested) :
        order \in UNION {Orders(keys) : keys \in SUBSET DocKeys},
        isObject \in BOOLEAN, nested \in NestedDocs}

\* Documents with arrays and nulls: AAA and k1 hold a string, null or an
\* array of one or two strings; k1 may hold a nested object whose one
\* property holds any of these.
Arrays == {<<"v0">>, <<"v0", "v1">>, <<"v1", "v0">>}

ValuesAt(key) ==
    {StringEntry(key, "v0"), NullEntry(key)} \cup {ArrayEntry(key, elems) : elems \in Arrays}

ArrayDocs ==
    LET atAAA == ValuesAt("AAA")
        atK1 == ValuesAt("k1") \cup {ObjectEntry("k1", <<inner>>) : inner \in ValuesAt("emoji")}
    IN {<<a>> : a \in atAAA} \cup {<<k>> : k \in atK1}
       \cup {<<a, k>> : a \in atAAA, k \in atK1}
       \cup {<<k, a>> : a \in atAAA, k \in atK1}

\* stringify() on the document the caller built.
ApplyStringify(p) ==
    LET pr == proc[p]
    IN /\ pr.pc = "stringify"
       /\ proc' = [proc EXCEPT ![p] =
             IF Throws(ObjectOf(pr.doc))
             THEN [pr EXCEPT !.pc = "idle", !.out = "TypeError"]
             ELSE [pr EXCEPT !.str = SignableStringify(ObjectOf(pr.doc)),
                             !.pc = "idle", !.out = "ok"]]
       /\ UNCHANGED <<srvEak, srvPolicy, srvRecords, akCache, config, tokenVars, nextKey,
                      wire, grant, lastData>>

----------------------------------------------------------------------------
(* RecordInfo: the (meta, data) pair a record's signature is made over      *)

\* A faulty meta_for_signing: the plain entries are left out.
MetaForSigningNoPlain(info) ==
    <<StringEntry("type", info.type),
      StringEntry("user_id", info.user),
      StringEntry("writer_id", info.writer)>>

\* The part of the meta that is signed: plain, type, user_id, writer_id and
\* none of the fields the server assigns.
MetaForSigning(info) ==
    <<ObjectEntry("plain", info.plain),
      StringEntry("type", info.type),
      StringEntry("user_id", info.user),
      StringEntry("writer_id", info.writer)>>

\* RecordInfo.stringify(): the canonical form of the meta followed by that
\* of the data, with nothing in between.
RecordInfoStringify(info) ==
    SignableStringify(ObjectOf(MetaForSigning(info)))
        \o SignableStringify(ObjectOf(info.data))

\* The string-to-string maps over the given names, as documents.
MapsOver(names) ==
    UNION {{[i \in DOMAIN SortKeys(keys) |->
                StringEntry(SortKeys(keys)[i], value[SortKeys(keys)[i]])] :
               value \in [keys -> Values]} : keys \in SUBSET names}

\* The (meta, data) pairs a caller can sign.
SignTypes == {"t1", "t2"}
PlainKeys == {"k1"}
FieldNames == {"AAA", "k1"}

RecordInfos ==
    [writer : Clients, user : Clients, type : SignTypes,
     plain : MapsOver(PlainKeys), data : MapsOver(FieldNames)]

\* Crypto.signDocument(info, privateSignKey) by the caller.
ApplySignDocument(p) ==
    LET pr == proc[p]
    IN /\ pr.pc = "signDocument"
       /\ proc' = [proc EXCEPT ![p] =
             [pr EXCEPT !.sig = SignDocument(RecordInfoStringify(pr.info),
                                             PrivateSignKey(Owner(p))),
                        !.pc = "verifyDocumentSignature"]]
       /\ UNCHANGED <<srvEak, srvPolicy, srvRecords, akCache, config, tokenVars, nextKey,
                      wire, grant, lastData>>

\* Crypto.verifyDocumentSignature(other, signature, verifyingKey): the
\* signature is checked for a pair that may differ from the one signed.
ApplyVerifyDocumentSignature(p) ==
    LET pr == proc[p]
    IN /\ pr.pc = "verifyDocumentSignature"
       /\ proc' = [proc EXCEPT ![p] =
             [pr EXCEPT !.verified = VerifyDocumentSignature(RecordInfoStringify(pr.other),
                                                             pr.sig, pr.signer),
                        !.pc = "idle", !.out = "ok"]]
       /\ UNCHANGED <<srvEak, srvPolicy, srvRecords, akCache, config, tokenVars, nextKey,
                      wire, grant, lastData>>

----------------------------------------------------------------------------
(* Registration and credential backup: register, backup *)

\* The type 'tozny.key_backup' and the credentials written under it: the one
\* type and a value of the model stand for them.
KeyBackup == "t1"
Credentials == "v0"

\* The statuses the account service answers its two POSTs with.
AccountStatuses == {200, 500}

\* backup(clientId, registrationToken) up to its first await: the write of
\* the credentials record is under way.
BackupCall(c, target, dk) ==
    EnterGetAccessKey(
        [IdleProc EXCEPT !.op = "write", !.type = KeyBackup, !.val = Credentials,
           !.phase = "enc", !.reader = target,
           !.body = Signed(c, [rid |-> 0, writer |-> ClientId(c), user |-> ClientId(c),
                               type |-> KeyBackup, data |-> PlainField(Credentials),
                               version |-> 0, signature |-> NoSig])],
        c, dk)

StartBackup(p, target) ==
    LET c == Owner(p)
    IN /\ proc[p].pc = "idle"
       /\ c \in Writers
       /\ Cardinality(FreeRids) > Cardinality(PendingWrites)
       /\ \E dk \in DataKeys :
            proc' = [proc EXCEPT ![p] = [BackupCall(c, target, dk) EXCEPT !.outer = "backup"]]
       /\ UNCHANGED <<srvEak, srvPolicy, srvRecords, akCache, config, tokenVars, nextKey,
                      wire, grant, lastData>>

\* The Client register builds for the backup is a new one, of a client the
\* service has nothing stored for yet.
Fresh(c) ==
    /\ \A key \in CacheKeys : akCache[c][key] = 0
    /\ authToken[c] = NoToken
    /\ \A r \in Rids : srvRecords[r] = NoRec
    /\ \A q \in Quads : srvEak[q] = NoEak

\* register(registrationToken, clientName, cryptoKeys, signingKeys, backup):
\* the registration POST is sent with a plain fetch.
StartRegister(p, backup, hasKey) ==
    /\ proc[p].pc = "idle"
    /\ Fresh(Owner(p))
    /\ proc' = [proc EXCEPT ![p] = [IdleProc EXCEPT !.op = "register", !.outer = "register",
                                       !.pc = "register", !.backup = backup,
                                       !.hasKey = hasKey]]
    /\ UNCHANGED <<srvEak, srvPolicy, srvRecords, akCache, config, tokenVars, nextKey,
                   wire, grant, lastData>>

\* The registration POST answered: checkStatus throws on a non-2xx answer;
\* else the ClientDetails are decoded and, with backup asked for and an
\* X-Backup-Client header in the answer, register throws when it was given
\* no private key and else awaits backup() on a new Client.
DoRegister(p) ==
    LET c == Owner(p)
        pr == proc[p]
    IN /\ pr.pc = "register"
       /\ \E status \in AccountStatuses, header \in BOOLEAN, dk \in DataKeys :
            LET answered == [pr EXCEPT !.status = status]
                decoded == [answered EXCEPT !.header = header, !.details = ClientId(c)]
            IN proc' = [proc EXCEPT ![p] =
                 IF ~CheckStatus(status)
                 THEN Done(answered, StatusText(status), NoRec)
                 ELSE IF pr.backup /\ header
                 THEN IF ~pr.hasKey
                      THEN Done(decoded, "Cannot back up credentials without a private key!",
                                NoRec)
                      ELSE [BackupCall(c, BackupClient, dk) EXCEPT
                              !.outer = "register", !.backup = pr.backup,
                              !.hasKey = pr.hasKey, !.header = header,
                              !.details = ClientId(c), !.status = status]
                 ELSE [Done(decoded, "ok", NoRec) EXCEPT !.resolved = decoded.details]]
       /\ UNCHANGED <<srvEak, srvPolicy, srvRecords, akCache, config, tokenVars, nextKey,
                      wire, grant, lastData>>

\* backup's notification POST answered: a plain fetch whose answer is not
\* looked at; backup resolves true, and register resolves with the details.
DoNotify(p) ==
    LET pr == proc[p]
    IN /\ pr.pc = "notify"
       /\ \E status \in AccountStatuses :
            proc' = [proc EXCEPT ![p] =
               [Done([pr EXCEPT !.status = status], "ok", NoRec) EXCEPT
                  !.backedUp = TRUE,
                  !.resolved = IF pr.outer = "register" THEN pr.details ELSE "true"]]
       /\ UNCHANGED <<srvEak, srvPolicy, srvRecords, akCache, config, tokenVars, nextKey,
                      wire, grant, lastData>>

----------------------------------------------------------------------------
(* Failure of a request *)

\* A faulty putAccessKey: the answer to its PUT is not checked, so a share
\* whose PUT for the reader was answered 5xx goes on to the policy.
FailRequestUnchecked(p) ==
    LET c == Owner(p)
        pr == proc[p]
        failed == [pr EXCEPT !.status = 500]
    IN /\ pr.pc \notin {"idle", "delRecord", "register", "notify"}
       /\ OauthFetch(c)
       /\ UNCHANGED config
       /\ proc' = [proc EXCEPT ![p] =
             IF pr.op = "share" /\ pr.pc = "putAk" /\ pr.phase = "reader"
             THEN [failed EXCEPT !.pc = "putPolicy"]
             ELSE Done(failed, StatusText(500), NoRec)]
       /\ wire' = IF pr.pc \in {"postRecord", "putRecord"} THEN pr.body.data.form ELSE wire
       /\ UNCHANGED <<srvEak, srvPolicy, srvRecords, akCache, nextKey, grant, lastData>>

\* The awaited request is answered 5xx (or not at all): nothing changes on
\* the server, checkStatus throws and the call rejects.  A record body that
\* was sent has been on the wire all the same.  (delete has its own switch
\* on the status in place of checkStatus.)
FailRequest(p) ==
    LET c == Owner(p)
        pr == proc[p]
    IN /\ pr.pc \notin {"idle", "delRecord", "register", "notify"}
       /\ OauthFetch(c)
       /\ UNCHANGED config
       /\ proc' = [proc EXCEPT ![p] = Done([pr EXCEPT !.status = 500], StatusText(500), NoRec)]
       /\ wire' = IF pr.pc \in {"postRecord", "putRecord"} THEN pr.body.data.form ELSE wire
       /\ UNCHANGED <<srvEak, srvPolicy, srvRecords, akCache, nextKey, grant, lastData>>

----------------------------------------------------------------------------
(* The clock and the token endpoint's failures *)

Tick ==
    /\ now < MaxTime
    /\ now' = now + 1
    /\ UNCHANGED <<srvEak, srvPolicy, srvRecords, config, akCache, authToken, authTokenTimeout,
                   srvExpiry, sent, proc, nextKey, wire, grant, lastData>>

\* getToken's fetch or its response.json() rejects (no answer, or an answer
\* whose body is not JSON): getToken rejects before it assigns anything,
\* oauthFetch rejects and so does the call; no storage request is sent.
DoTokenRejected(p) ==
    LET c == Owner(p)
        pr == proc[p]
    IN /\ pr.pc \notin {"idle", "register", "notify"}
       /\ NeedsToken(c)
       /\ proc' = [proc EXCEPT ![p] = Done(pr, "TokenError", NoRec)]
       /\ UNCHANGED <<srvEak, srvPolicy, srvRecords, akCache, config, tokenVars, nextKey,
                      wire, grant, lastData>>

\* The token endpoint answers 401 or 403 with a JSON body: getToken does not
\* look at the status, json.access_token and json.expires_at are undefined,
\* so the slot holds undefined and the timeout NaN.  oauthFetch sends the
\* storage request with 'Bearer undefined', which is answered 401.
DoTokenDenied(p) ==
    LET c == Owner(p)
        pr == proc[p]
    IN /\ pr.pc \notin {"idle", "register", "notify"}
       /\ NeedsToken(c)
       /\ authToken' = [authToken EXCEPT ![c] = Undefined]
       /\ authTokenTimeout' = [authTokenTimeout EXCEPT ![c] = DateParse(NoDate)]
       /\ sent' = [sent EXCEPT ![c] = [token |-> Undefined, at |-> now, fetched |-> TRUE,
                                        had |-> authToken[c], hadExpiry |-> srvExpiry[c]]]
       /\ proc' = [proc EXCEPT ![p] = Done([pr EXCEPT !.status = 401], StatusText(401), NoRec)]
       /\ wire' = IF pr.pc \in {"postRecord", "putRecord"} THEN pr.body.data.form ELSE wire
       /\ UNCHANGED <<srvEak, srvPolicy, srvRecords, config, akCache, srvExpiry, now, nextKey,
                      grant, lastData>>

\* A request of a Client whose slot holds undefined: the slot is not null and
\* Date.now() > NaN is false, so no token is asked for; the storage request
\* goes out with 'Bearer undefined' and is answered 401.
DoUnauthorized(p) ==
    LET c == Owner(p)
        pr == proc[p]
    IN /\ pr.pc \notin {"idle", "register", "notify"}
       /\ GetToken(c) = Undefined
       /\ sent' = [sent EXCEPT ![c] = [token |-> Undefined, at |-> now, fetched |-> FALSE,
                                        had |-> authToken[c], hadExpiry |-> srvExpiry[c]]]
       /\ proc' = [proc EXCEPT ![p] = Done([pr EXCEPT !.status = 401], StatusText(401), NoRec)]
       /\ wire' = IF pr.pc \in {"postRecord", "putRecord"} THEN pr.body.data.form ELSE wire
       /\ UNCHANGED <<srvEak, srvPolicy, srvRecords, config, akCache, authToken, authTokenTimeout,
                      srvExpiry, now, nextKey, grant, lastData>>

----------------------------------------------------------------------------
(* Specifications *)

Start(p) ==
    \/ \E t \in Types, v \in Values : StartWrite(p, t, v)
    \/ \E rid \in Rids, ver \in 1..MaxVersion, v \in Values : StartUpdate(p, rid, ver, v)
    \/ \E rid \in Rids : StartRead(p, rid)
    \/ \E t \in Types, r \in Clients \cup {EmailReader} : StartShare(p, t, r)
    \/ \E t \in Types, r \in Clients \cup {EmailReader} : StartRevoke(p, t, r)
    \/ \E t \in Types, allWriters \in BOOLEAN, data \in BOOLEAN, count \in PageSizes :
          StartQueryNext(p, t, allWriters, data, count)

Step(p) ==
    \/ DoGetAccessKey(p)
    \/ DoGetClient(p)
    \/ DoPutAccessKey(p)
    \/ DoDeleteAccessKey(p)
    \/ DoPostRecord(p)
    \/ DoPutRecord(p)
    \/ DoGetRecord(p)
    \/ DoPutPolicy(p)
    \/ DoSearch(p)
    \/ FailRequest(p)

\* Every Client issues its calls one at a time; different Clients interleave.
Next == \E p \in SeqProcs : Start(p) \/ Step(p)

Spec == Init /\ [][Next]_vars

\* The writer alone, with the calls that work on caller-supplied keys and
\* records as well.
OfflineProcs == {"p1"}

StartOffline(p) ==
    \/ \E t \in Types : StartCreateWriterKey(p, t)
    \/ \E x \in Clients \cup {EmailReader} : StartClientInfo(p, x)
    \/ \E t \in Types, v \in Values, crafted \in BOOLEAN : StartEncrypt(p, t, v, crafted)
    \/ \E t \in Types, v \in Values, encrypted \in BOOLEAN : StartWriteRaw(p, t, v, encrypted)

NextOffline == \E p \in OfflineProcs : Start(p) \/ StartOffline(p) \/ Step(p)

SpecOffline == Init /\ [][NextOffline]_vars

\* One Client with two record calls in flight at once.  A write overlaps
\* another call only once the type's key is cached: a call that has to
\* create the key runs alone here.
ConcProcs == {"p1", "p2"}

StartWriteConc(p, t, v) ==
    /\ \/ akCache[Owner(p)][<<ClientId(Owner(p)), ClientId(Owner(p)), t>>] # 0
       \/ \A q \in ConcProcs : proc[q].pc = "idle"
    /\ StartWrite(p, t, v)

NextConc ==
    \E p \in ConcProcs :
        \/ \E t \in Types, v \in Values : StartWriteConc(p, t, v)
        \/ \E rid \in Rids, ver \in 1..MaxVersion, v \in Values : StartUpdate(p, rid, ver, v)
        \/ \E rid \in Rids : StartRead(p, rid)
        \/ DoGetAccessKey(p)
        \/ DoGetClient(p)
        \/ DoPutAccessKey(p)
        \/ DoPostRecord(p)
        \/ DoPutRecord(p)
        \/ DoGetRecord(p)
        \/ FailRequest(p)

SpecConc == Init /\ [][NextConc]_vars

\* One Client that writes and updates records and pages through them with
\* query().
QueryProcs == {"p1"}

NextQuery ==
    \E p \in QueryProcs :
        \/ \E t \in Types, v \in Values : StartWrite(p, t, v)
        \/ \E t \in Types, allWriters \in BOOLEAN, data \in BOOLEAN, count \in PageSizes :
              StartQueryNext(p, t, allWriters, data, count)
        \/ \E rid \in Rids, ver \in 1..MaxVersion, v \in Values : StartUpdate(p, rid, ver, v)
        \/ QueryResultNext(p)
        \/ DoGetAccessKey(p)
        \/ DoGetClient(p)
        \/ DoPutAccessKey(p)
        \/ DoPutRecord(p)
        \/ DoPostRecord(p)
        \/ DoSearch(p)
        \/ FailRequest(p)

SpecQuery == Init /\ [][NextQuery]_vars

\* The same Client when every request is answered and a QueryResult is
\* iterated by the caller that made it: no new query() while one is being
\* iterated, next() is called again whenever the last one has settled.
StartIteration(p, t, allWriters, data, count) ==
    /\ proc[p].op # "next"
    /\ StartQueryNext(p, t, allWriters, data, count)

NextIterate ==
    \E p \in QueryProcs :
        \/ \E t \in Types, v \in Values : StartWrite(p, t, v)
        \/ \E t \in Types, allWriters \in BOOLEAN, data \in BOOLEAN, count \in PageSizes :
              StartIteration(p, t, allWriters, data, count)
        \/ \E rid \in Rids, ver \in 1..MaxVersion, v \in Values : StartUpdate(p, rid, ver, v)
        \/ QueryResultNext(p)
        \/ DoGetAccessKey(p)
        \/ DoGetClient(p)
        \/ DoPutAccessKey(p)
        \/ DoPutRecord(p)
        \/ DoPostRecord(p)
        \/ DoSearch(p)

SpecIterate ==
    /\ Init
    /\ [][NextIterate]_vars
    /\ WF_vars(\E p \in QueryProcs : QueryResultNext(p))
    /\ WF_vars(\E p \in QueryProcs : DoSearch(p))

\* The iterating Client when requests may fail as well.
NextCursor ==
    \E p \in QueryProcs :
        \/ \E t \in Types, v \in Values : StartWrite(p, t, v)
        \/ \E t \in Types, allWriters \in BOOLEAN, data \in BOOLEAN, count \in PageSizes :
              StartIteration(p, t, allWriters, data, count)
        \/ QueryResultNext(p)
        \/ DoGetAccessKey(p)
        \/ DoGetClient(p)
        \/ DoPutAccessKey(p)
        \/ DoPostRecord(p)
        \/ DoSearch(p)
        \/ FailRequest(p)

SpecCursor == Init /\ [][NextCursor]_vars

\* One Client whose caller does not wait for a next() to settle before it
\* calls next() again; records are written and queries made while no next()
\* is in flight.
Settled == \A p \in ConcProcs : proc[p].pc = "idle"

NextOverlap ==
    \/ /\ Settled
       /\ \/ \E t \in Types, v \in Values : StartWrite(Holder, t, v)
          \/ \E t \in Types, allWriters \in BOOLEAN, data \in BOOLEAN, count \in PageSizes :
                StartQueryNext(Holder, t, allWriters, data, count)
    \/ DoGetAccessKey(Holder)
    \/ DoGetClient(Holder)
    \/ DoPutAccessKey(Holder)
    \/ DoPostRecord(Holder)
    \/ \E p \in ConcProcs : OverlapNext(p) \/ OverlapSearch(p) \/ FailRequest(p)

SpecOverlap == Init /\ [][NextOverlap]_vars

\* One Client writing and reading while time passes and the token endpoint
\* may fail.
TokenProcs == {"p1"}

NextToken ==
    \/ Tick
    \/ \E p \in TokenProcs :
          \/ \E t \in Types, v \in Values : StartWrite(p, t, v)
          \/ \E rid \in Rids : StartRead(p, rid)
          \/ DoGetAccessKey(p)
          \/ DoGetClient(p)
          \/ DoPutAccessKey(p)
          \/ DoPostRecord(p)
          \/ DoGetRecord(p)
          \/ FailRequest(p)
          \/ DoTokenRejected(p)
          \/ DoTokenDenied(p)
          \/ DoUnauthorized(p)

SpecToken == Init /\ [][NextToken]_vars

\* One Client writing, updating and deleting records.
NextDelete ==
    \E p \in OfflineProcs :
        \/ \E t \in Types, v \in Values : StartWrite(p, t, v)
        \/ \E rid \in Rids, ver \in 1..MaxVersion, v \in Values : StartUpdate(p, rid, ver, v)
        \/ \E rid \in Rids, ver \in 0..MaxVersion : StartDelete(p, rid, ver)
        \/ DoGetAccessKey(p)
        \/ DoGetClient(p)
        \/ DoPutAccessKey(p)
        \/ DoPostRecord(p)
        \/ DoPutRecord(p)
        \/ DoDeleteRecord(p)
        \/ FailRequest(p)

SpecDelete == Init /\ [][NextDelete]_vars

\* One Client, of version 1 or 2, that writes, updates, signs, and encrypts
\* and decrypts offline.
NextSign ==
    \E p \in OfflineProcs :
        \/ \E t \in Types, v \in Values : StartWrite(p, t, v)
        \/ \E rid \in Rids, ver \in 1..MaxVersion, v \in Values : StartUpdate(p, rid, ver, v)
        \/ \E t \in Types, v \in Values, crafted \in BOOLEAN : StartEncrypt(p, t, v, crafted)
        \/ \E t \in Types, v \in Values : StartSign(p, t, v)
        \/ \E tamper \in {"none", "data", "unsigned", "forged"},
              signer \in {NoSignKey} \cup {PublicSignKey(x) : x \in Clients} :
              StartDecrypt(p, tamper, signer)
        \/ DoGetAccessKey(p)
        \/ DoGetClient(p)
        \/ DoPutAccessKey(p)
        \/ DoPostRecord(p)
        \/ DoPutRecord(p)
        \/ FailRequest(p)

SpecSign == InitSign /\ [][NextSign]_vars

\* Crypto alone: a record and an access key, encrypted and decrypted again.
InitCrypto ==
    \E record \in PlainRecords, accessKey \in Keys :
        InitState([c \in Clients |-> 2],
                  [p \in Procs |->
                     IF p \in OfflineProcs
                     THEN [IdleProc EXCEPT !.op = "roundTrip", !.pc = "encryptRecord",
                                           !.body = record, !.ak = accessKey]
                     ELSE IdleProc])

NextCrypto == \E p \in OfflineProcs : ApplyEncryptRecord(p) \/ ApplyDecryptRecord(p)

SpecCrypto == InitCrypto /\ [][NextCrypto]_vars

\* Signable alone: a document, serialized.
InitStringify ==
    \E doc \in Docs :
        InitState([c \in Clients |-> 2],
                  [p \in Procs |->
                     IF p \in OfflineProcs
                     THEN [IdleProc EXCEPT !.op = "stringify", !.pc = "stringify",
                                           !.doc = doc]
                     ELSE IdleProc])

NextStringify == \E p \in OfflineProcs : ApplyStringify(p)

\* stringify() on the documents with arrays and nulls.
InitArrays ==
    \E doc \in ArrayDocs :
        InitState([c \in Clients |-> 2],
                  [p \in Procs |->
                     IF p \in OfflineProcs
                     THEN [IdleProc EXCEPT !.op = "stringify", !.pc = "stringify",
                                           !.doc = doc]
                     ELSE IdleProc])

NextArrays == \E p \in OfflineProcs : ApplyStringify(p)

SpecArrays == InitArrays /\ [][NextArrays]_vars

SpecStringify == InitStringify /\ [][NextStringify]_vars

\* Signatures alone: a (meta, data) pair is signed, and the signature is
\* verified for that pair or another one, under some public key.
InitVerify ==
    \E info \in RecordInfos, other \in RecordInfos, verifyingKey \in Clients :
        InitState([c \in Clients |-> 2],
                  [p \in Procs |->
                     IF p \in OfflineProcs
                     THEN [IdleProc EXCEPT !.op = "verify", !.pc = "signDocument",
                                           !.info = info, !.other = other,
                                           !.signer = PublicSignKey(verifyingKey)]
                     ELSE IdleProc])

NextVerify ==
    \E p \in OfflineProcs : ApplySignDocument(p) \/ ApplyVerifyDocumentSignature(p)

SpecVerify == InitVerify /\ [][NextVerify]_vars

\* One Client: registration with and without backup, backup on its own, the
\* record calls, delete, and a token endpoint that refuses.
NextRegister ==
    \E p \in OfflineProcs :
        \/ \E backup \in BOOLEAN, hasKey \in BOOLEAN : StartRegister(p, backup, hasKey)
        \/ \E target \in Clients : StartBackup(p, target)
        \/ \E t \in Types, v \in Values : StartWrite(p, t, v)
        \/ \E rid \in Rids : StartRead(p, rid)
        \/ \E rid \in Rids, ver \in 0..MaxVersion : StartDelete(p, rid, ver)
        \/ DoRegister(p)
        \/ DoNotify(p)
        \/ DoGetAccessKey(p)
        \/ DoGetClient(p)
        \/ DoPutAccessKey(p)
        \/ DoPostRecord(p)
        \/ DoGetRecord(p)
        \/ DoPutPolicy(p)
        \/ DoDeleteRecord(p)
        \/ FailRequest(p)
        \/ DoTokenDenied(p)
        \/ DoUnauthorized(p)

SpecRegister == Init /\ [][NextRegister]_vars

----------------------------------------------------------------------------
(* Properties *)

TripleOf(q) == <<q[1], q[2], q[4]>>

\* A call of client c with reader r that got past the early returns of
\* share and revoke.
OtherReader(c, r) == r \in Clients /\ r # ClientId(c)

\* The keys in use on the server for a triple: those the stored records'
\* fields are sealed under and those the readers' EAKs unseal to.
AksOf(k) ==
    {srvRecords[r].data.ak : r \in {x \in Rids : /\ srvRecords[x] # NoRec
                                                 /\ <<srvRecords[x].writer, srvRecords[x].user,
                                                      srvRecords[x].type>> = k}}
    \cup {DecryptEak(PrivateKey(q[3]), EakInfoOf(q)) :
             q \in {x \in Quads : TripleOf(x) = k /\ srvEak[x] # NoEak}}

\* C1: whatever write, update, share and revoke calls the writer has made one
\* after the other (and whatever the readers read and queried), each triple
\* (W,U,T) has one access key: every stored record of the triple is sealed
\* under it and every reader's stored EAK of the triple unseals to it.
C1_OneAkPerTriple ==
    \A k \in CacheKeys :
        /\ Cardinality(AksOf(k)) <= 1
        /\ AksOf(k) \subseteq Keys

\* C1 witness: a record has been updated, the type has been shared after
\* that, and record, writer's EAK and reader's EAK all carry the one key.
C1_Witness ==
    \E r \in Rids, q \in Quads :
        /\ srvRecords[r] # NoRec
        /\ srvRecords[r].version = 2
        /\ q[3] # q[1]
        /\ TripleOf(q) = <<srvRecords[r].writer, srvRecords[r].user, srvRecords[r].type>>
        /\ srvEak[q] # NoEak
        /\ srvEak[<<q[1], q[2], q[1], q[4]>>] # NoEak
        /\ grant[<<q[1], q[3], q[4]>>] = "shared"

\* C2: every key a Client caches under (W,U,T) is the key the server's EAKs
\* of (W,U,T) wrap, after any calls including the offline encrypt that
\* fills the cache from the EAK its caller hands in.
C2_CacheMatchesServer ==
    \A c \in Clients, q \in Quads :
        (akCache[c][TripleOf(q)] # 0 /\ srvEak[q] # NoEak)
            => srvEak[q].eak.ak = akCache[c][TripleOf(q)]

C5_RevokeIsOneOperation ==
    \A p \in SeqProcs :
        (/\ proc[p].op = "revoke" /\ proc[p].pc = "idle"
         /\ OtherReader(Owner(p), proc[p].reader)
         /\ srvPolicy[<<ClientId(Owner(p)), ClientId(Owner(p)), proc[p].reader, proc[p].type>>] = "deny")
            => srvEak[<<ClientId(Owner(p)), ClientId(Owner(p)), proc[p].reader, proc[p].type>>] = NoEak

\* C6: no record body the client sends (POST from write or writeRaw, PUT
\* from update) carries a plaintext field value, whatever Record the caller
\* passed in: the data field on the wire is in the 4-part sealed form.
C6_NoPlaintextOnWire == wire # "plain"

\* A finished read that the server answered (no request of it failed).
ReadAnswered(p) ==
    /\ proc[p].op = "read"
    /\ proc[p].pc = "idle"
    /\ proc[p].out # StatusText(500)

\* C7: when the writer's write of a record of type T and its share(T,B) have
\* resolved and the sharing stands while B reads, B.read(recordId) resolves
\* with the data the writer wrote, B holding its own Client and cache.
C7_ShareGrantsRead ==
    \A p \in SeqProcs :
        (ReadAnswered(p) /\ proc[p].seen = "shared")
            => /\ proc[p].out = "ok"
               /\ proc[p].want \in Values
               /\ proc[p].ret.data = PlainField(proc[p].want)
               /\ proc[p].ret.rid = proc[p].rid

\* C7 witness: the reader's read of a shared record has resolved with the
\* value of the writer's update.
C7_Witness ==
    \E p \in SeqProcs :
        /\ ReadAnswered(p) /\ proc[p].seen = "shared"
        /\ Owner(p) \notin Writers
        /\ proc[p].ret.version = 2
        /\ proc[p].ret.data.form = "plain"
        /\ akCache[Owner(p)][<<proc[p].ret.writer, proc[p].ret.user, proc[p].ret.type>>] # 0

\* C8: once the writer's revoke(T,B) has resolved after B read a record of
\* T (so B holds the key), B.read(recordId) fails with NoAccess.
C8_ReadAfterRevokeIsNoAccess ==
    \A p \in SeqProcs :
        (/\ ReadAnswered(p) /\ proc[p].seen = "revoked"
         /\ akCache[Owner(p)][<<srvRecords[proc[p].rid].writer, srvRecords[proc[p].rid].user,
                                srvRecords[proc[p].rid].type>>] # 0)
            => proc[p].out = "NoAccess"

UpdateDone(p) == proc[p].op = "update" /\ proc[p].pc = "idle"

C9_States ==
    /\ \A p \in ConcProcs :
          UpdateDone(p) =>
             /\ proc[p].out \in {"ok", "Conflict", StatusText(500)}
             /\ proc[p].out = "ok" =>
                   /\ proc[p].ret.rid = proc[p].rid
                   /\ proc[p].ret.version = proc[p].ver + 1
                   /\ srvRecords[proc[p].rid].version > proc[p].ver
             /\ proc[p].out = "Conflict" => srvRecords[proc[p].rid].version > proc[p].ver
    /\ \A p, q \in ConcProcs :
          (/\ p # q /\ UpdateDone(p) /\ UpdateDone(q)
           /\ proc[p].rid = proc[q].rid /\ proc[p].ver = proc[q].ver)
              => ~(proc[p].out = "ok" /\ proc[q].out = "ok")

C9_Steps ==
    \A p \in ConcProcs :
        (proc[p].op = "update" /\ proc[p].pc = "putRecord" /\ proc'[p].pc = "idle")
            => /\ proc'[p].out = "Conflict" => srvRecords' = srvRecords
               /\ proc'[p].out = "ok" =>
                     /\ srvRecords[proc[p].rid].version = proc[p].ver
                     /\ srvRecords'[proc[p].rid].version = proc[p].ver + 1

\* C9: of the updates of one record made from one meta.version, one after
\* the other with a stale record or at the same time, one resolves, with the
\* record at a new version, and any other the server answers rejects with
\* Conflict and leaves the stored record as it is.
C9_OptimisticConcurrency == []C9_States /\ [][C9_Steps]_vars

\* C9 witness: two updates of the same record from the same version are
\* done, one resolved and one rejected with Conflict.
C9_Witness ==
    /\ UpdateDone("p1") /\ UpdateDone("p2")
    /\ proc["p1"].rid = proc["p2"].rid /\ proc["p1"].ver = proc["p2"].ver
    /\ proc["p1"].out = "Conflict" /\ proc["p2"].out = "ok"

\* C10: a write that resolves returns the input data, writerId and userId
\* equal to the clientId, and the recordId and version the server stored it
\* under, also when the call had to create the type's access key; a read by
\* the same client that follows returns the stored data and version.
C10_WriteRoundTrip ==
    \A p \in SeqProcs :
        /\ (proc[p].op = "write" /\ proc[p].pc = "idle" /\ proc[p].out = "ok")
              => /\ proc[p].ret.data = PlainField(proc[p].val)
                 /\ proc[p].ret.writer = ClientId(Owner(p))
                 /\ proc[p].ret.user = ClientId(Owner(p))
                 /\ proc[p].ret.type = proc[p].type
                 /\ proc[p].ret.rid \in Rids
                 /\ proc[p].ret.version >= 1
                 /\ proc[p].ret.version = srvRecords[proc[p].ret.rid].version
                 /\ lastData[proc[p].ret.rid] = proc[p].val
        /\ (proc[p].op = "read" /\ proc[p].pc = "idle" /\ proc[p].out = "ok"
            /\ Owner(p) \in Writers)
              => /\ proc[p].ret.rid = proc[p].rid
                 /\ proc[p].ret.data = PlainField(lastData[proc[p].rid])
                 /\ proc[p].ret.version = srvRecords[proc[p].rid].version

\* C10 witness: the first write of a type has resolved: no sharing was ever
\* begun, the one key there is seals the stored record.
C10_Witness ==
    \E p \in SeqProcs :
        /\ proc[p].op = "write" /\ proc[p].pc = "idle" /\ proc[p].out = "ok"
        /\ nextKey = 1
        /\ srvRecords[proc[p].ret.rid].data.ak = 1
        /\ \A g \in DOMAIN grant : grant[g] = "none"

\* C11: on one QueryResult every search request carries as after_index the
\* last_index of the last page with results received so far (0 before any),
\* no page brings a record an earlier page brought, and no record is
\* returned twice by the next() calls.
C11_NoRecordTwice ==
    \A p \in Procs :
        proc[p].op = "next" =>
            /\ proc[p].pc = "search" => proc[p].afterIndex = proc[p].lastIndex
            /\ ~proc[p].again
            /\ \A i, j \in 1..Len(proc[p].returned) :
                   proc[p].returned[i] = proc[p].returned[j] => i = j

\* The records a QueryResult matches, in server order.
Matching(p) ==
    InOrder(SearchResults(ClientId(Owner(p)), proc[p].type, proc[p].all))

\* C12: a QueryResult that is iterated (next() awaited again and again, the
\* matching records unchanged) ends with done = true, having returned every
\* matching record exactly once in server order.
C12_PaginationTotality ==
    \A p \in QueryProcs :
        [](proc[p].op = "next" =>
             <>(\/ proc[p].op # "next"
                \/ proc[p].done /\ proc[p].returned = Matching(p)))

\* C13: a next() of a query that requested data, answered with a page that
\* has results, resolves, and the client's cache then holds a key for the
\* (writer, user, type) of each result.
C13_NextDecryptsPage ==
    \A p \in Procs :
        (proc[p].op = "next" /\ proc[p].pc = "idle" /\ proc[p].data /\ proc[p].n > 0) =>
            /\ proc[p].out = "ok"
            /\ \A r \in proc[p].received :
                   srvRecords[r] # NoRec =>
                      akCache[Owner(p)][<<srvRecords[r].writer, srvRecords[r].user,
                                          srvRecords[r].type>>] # 0

\* C17: share(T, R) by a client with no key for T (the access-key GET
\* answered 404) makes a key, stores it wrapped for itself before it wraps it
\* for R, and puts the policy after that; when it has resolved, R's EAK and
\* the client's own EAK unwrap to the key made, which the client has cached.
\* No stored EAK wraps null, and a record a later write(T) stored is sealed
\* under the key R's EAK unwraps to.
C17_ShareBeforeWrite ==
    /\ \A q \in Quads : srvEak[q] # NoEak => srvEak[q].eak.ak \in Keys
    /\ \A p \in SeqProcs :
          LET c == Owner(p)
              id == ClientId(c)
              pr == proc[p]
              own == <<id, id, id, pr.type>>
              shared == <<id, id, pr.reader, pr.type>>
          IN /\ (pr.op = "share" /\ pr.phase = "reader") => srvEak[own] # NoEak
             /\ (pr.op = "share" /\ pr.pc = "putPolicy") => srvEak[shared] # NoEak
             /\ (pr.op = "share" /\ pr.pc = "idle" /\ pr.out = "ok" /\ pr.made # 0) =>
                   /\ DecryptEak(PrivateKey(c), EakInfoOf(own)) = pr.made
                   /\ DecryptEak(PrivateKey(pr.reader), EakInfoOf(shared)) = pr.made
                   /\ akCache[c][<<id, id, pr.type>>] = pr.made
                   /\ srvPolicy[shared] = "allow"
             /\ (pr.op = "write" /\ pr.pc = "idle" /\ pr.out = "ok") =>
                   \A r \in Clients :
                      grant[<<id, r, pr.type>>] = "shared" =>
                         srvRecords[pr.ret.rid].data.ak =
                            DecryptEak(PrivateKey(r), EakInfoOf(<<id, id, r, pr.type>>))

\* A share to B that had to make the key has resolved, no record stored yet.
C17_Witness ==
    /\ proc["p1"].op = "share"
    /\ proc["p1"].pc = "idle"
    /\ proc["p1"].out = "ok"
    /\ proc["p1"].reader = "B"
    /\ proc["p1"].made # 0
    /\ \A r \in Rids : srvRecords[r] = NoRec

\* C14: after a failed token acquisition the slot holds no token value: a
\* Client's slot is null or holds a token the endpoint issued to it; no
\* storage request goes out without such a token, and a Client whose slot
\* holds no issued token asks for one on its next request.
C14_TokenFailureLeavesNone ==
    \A c \in Clients :
        /\ authToken[c] \in {NoToken, ClientId(c)}
        /\ sent[c].token \in {NothingSent.token, ClientId(c)}
        /\ authToken[c] # ClientId(c) => NeedsToken(c)

StepOf(p) == proc'[p] # proc[p]

C16_States ==
    \A c \in Clients : sent[c].token \in {NothingSent.token, ClientId(c)}

C16_Steps ==
    /\ \A c \in Clients :
          (\/ akCache'[c] # akCache[c]
           \/ authToken'[c] # authToken[c]
           \/ authTokenTimeout'[c] # authTokenTimeout[c])
             => \E p \in Procs : Owner(p) = c /\ StepOf(p)
    /\ \A p \in Procs :
          (StepOf(p) /\ proc'[p].pc = "idle" /\ proc'[p].out = "ok"
                     /\ proc'[p].ret # NoRec) =>
             akCache'[Owner(p)][<<proc'[p].ret.writer, proc'[p].ret.user,
                                  proc'[p].ret.type>>] # 0

\* C16: the AK cache and the token slot are a Client instance's own: they
\* change only in steps of calls made on that Client, every storage request
\* of a Client carries a token issued to its own credentials, and a record a
\* call returns was decrypted with a key that is in its own Client's cache.
C16_PerClientState == []C16_States /\ [][C16_Steps]_vars

\* Both Clients hold their own token and the key of A's type, and B has
\* read a record of A.
C16_Witness ==
    /\ authToken["A"] = ClientId("A")
    /\ authToken["B"] = ClientId("B")
    /\ akCache["A"][<<"A", "A", "t1">>] # 0
    /\ akCache["B"][<<"A", "A", "t1">>] = akCache["A"][<<"A", "A", "t1">>]
    /\ proc["p3"].op = "read"
    /\ proc["p3"].out = "ok"

\* C18: a finished delete addressed the safe endpoint when it was given a
\* version and the unconditional one when not; it resolved true exactly
\* when the answer was 204 or 403, rejected with Conflict on 409 (the record
\* of a stale safe delete still stored) and with an error on any other
\* status.
C18_DeleteByStatus ==
    \A p \in OfflineProcs :
        LET pr == proc[p]
        IN (pr.op = "delete" /\ pr.pc = "idle") =>
              /\ pr.url = DeleteUrl(0) <=> pr.ver = 0
              /\ pr.out = "ok" <=> pr.status \in {204, 403}
              /\ pr.status = 409 =>
                    /\ pr.out = "Conflict"
                    /\ pr.ver # 0
                    /\ srvRecords[pr.rid] # NoRec
                    /\ srvRecords[pr.rid].version # pr.ver
              /\ pr.status \notin {204, 403, 409} =>
                    pr.out = "Error while deleting record data!"
              /\ pr.status = 204 => srvRecords[pr.rid] = NoRec

\* A safe delete with a stale version was answered 409 and rejected.
C18_Witness ==
    /\ proc["p1"].op = "delete"
    /\ proc["p1"].pc = "idle"
    /\ proc["p1"].status = 409
    /\ proc["p1"].out = "Conflict"
    /\ srvRecords[proc["p1"].rid].version > proc["p1"].ver

\* C19: a record that write, update or encrypt resolved with is signed if
\* and only if the Client's config has version 2; on a version-1 config
\* sign() rejects with 'Cannot sign documents without a signing key!', and
\* write, update and encrypt never do.
C19_SignedIffVersion2 ==
    \A p \in OfflineProcs :
        LET pr == proc[p]
            c == Owner(p)
            message == "Cannot sign documents without a signing key!"
        IN pr.pc = "idle" =>
              /\ (pr.op \in {"write", "update", "encrypt"} /\ pr.out = "ok") =>
                    (pr.ret.signature # NoSig <=> config[c] = 2)
              /\ pr.op \in {"write", "update", "encrypt"} => pr.out # message
              /\ pr.op = "sign" => (pr.out = message <=> config[c] = 1)
              /\ pr.op = "sign" => (pr.out = "ok" <=> config[c] = 2)
              /\ (pr.op = "sign" /\ pr.out = "ok") => pr.ret.signature # NoSig

\* A version-1 Client has updated a record: the record returned is unsigned.
C19_Witness ==
    /\ config["A"] = 1
    /\ proc["p1"].op = "update"
    /\ proc["p1"].pc = "idle"
    /\ proc["p1"].out = "ok"
    /\ proc["p1"].ret.signature = NoSig

\* C20: decrypt(record, eak) returns a record only if the record's signature
\* verifies under eak.signerSigningKey over the canonical form of the meta
\* and the decrypted data; it rejects with 'EAKInfo has no signing key!'
\* when the EAK has no signer key and with 'Document failed verification'
\* when the verification is false; no tampered and no unsigned record is
\* returned.
C20_DecryptVerifies ==
    \A p \in OfflineProcs :
        LET pr == proc[p]
            opened == DecryptRecord(pr.body, pr.body.data.ak)
        IN (pr.op = "decrypt" /\ pr.pc = "idle") =>
              /\ pr.out = "ok" =>
                    /\ pr.signer # NoSignKey
                    /\ pr.ret = opened
                    /\ pr.ret.signature # NoSig
                    /\ pr.ret.signature.key = pr.signer
                    /\ pr.ret.signature.doc = Stringify(pr.ret)
                    /\ pr.tamper \notin {"data", "unsigned"}
                    /\ pr.tamper = "forged" => pr.signer # PublicSignKey(Owner(p))
              /\ pr.signer = NoSignKey => pr.out = "EAKInfo has no signing key!"
              /\ (/\ pr.signer # NoSignKey
                  /\ pr.body.signature # NoSig
                  /\ \/ pr.body.signature.key # pr.signer
                     \/ pr.body.signature.doc # Stringify(opened))
                    => pr.out = "Document failed verification"

\* A record with another value, signed by somebody else, was passed with
\* an EAK that names the writer as signer, and rejected.
C20_Witness ==
    /\ proc["p1"].op = "decrypt"
    /\ proc["p1"].pc = "idle"
    /\ proc["p1"].tamper = "forged"
    /\ proc["p1"].signer = PublicSignKey("A")
    /\ proc["p1"].out = "Document failed verification"

\* C21: for every record R, one that carries a recordId and a version from
\* the server included, and every access key K, decryptRecord(
\* encryptRecord(R, K), K) has the data of R and every meta field of R.
C21_RoundTrip ==
    \A p \in OfflineProcs :
        LET pr == proc[p]
        IN (pr.op = "roundTrip" /\ pr.pc = "idle") =>
              /\ pr.out = "ok"
              /\ pr.ret.data = pr.body.data
              /\ pr.ret.writer = pr.body.writer
              /\ pr.ret.user = pr.body.user
              /\ pr.ret.type = pr.body.type
              /\ pr.ret.rid = pr.body.rid
              /\ pr.ret.version = pr.body.version

RECURSIVE InCodeUnitOrder(_)
RECURSIVE ListInOrder(_, _)
\* The properties of a document listed in ascending UTF-16 code-unit order
\* of their names, at every level.
ListInOrder(obj, keys) ==
    IF keys = <<>> THEN <<>>
    ELSE LET entry == Get(obj, Head(keys))
         IN <<IF entry.kind = "object"
              THEN ObjectEntry(entry.key, InCodeUnitOrder(entry.obj))
              ELSE entry>> \o ListInOrder(obj, Tail(keys))

InCodeUnitOrder(obj) == ListInOrder(obj, SortKeys(ObjectKeys(obj)))

\* The documents with the properties of the given one, set in any order.
Reordered(doc) ==
    LET isObject == \E i \in DOMAIN doc : doc[i].kind = "object"
        nestedOf == IF isObject THEN Orders(ObjectKeys(Get(doc, "k1").obj)) ELSE {<<>>}
    IN {DocOf(order, isObject,
              [i \in DOMAIN nested |-> StringEntry(nested[i], "v1")]) :
           order \in Orders(ObjectKeys(doc)), nested \in nestedOf}

\* C22: stringify() returns the same string whatever the order in which the
\* document's properties were set, and in that string the names of every
\* object, nested ones included, are in ascending UTF-16 code-unit order:
\* upper-case, lower-case, digit-only and emoji names alike.
C22_CanonicalOrder ==
    \A p \in OfflineProcs :
        LET pr == proc[p]
        IN (pr.op = "stringify" /\ pr.pc = "idle") =>
              /\ \A other \in Reordered(pr.doc) :
                     SignableStringify(ObjectOf(other)) = pr.str
              /\ pr.str = JsonStringify(InCodeUnitOrder(pr.doc))

\* C23: two (meta, data) pairs that differ in writer_id, user_id, type, an
\* entry of plain, or a data field's name or value have different canonical
\* strings, so a signature made for one does not verify for the other; the
\* signature verifies for the pair it was made for under the signer's
\* public key, and under no other key.
C23_SignatureCoversFields ==
    \A p \in OfflineProcs :
        LET pr == proc[p]
        IN (pr.op = "verify" /\ pr.pc = "idle") =>
              /\ pr.info # pr.other =>
                    /\ RecordInfoStringify(pr.info) # RecordInfoStringify(pr.other)
                    /\ ~pr.verified
              /\ pr.verified <=>
                    /\ pr.info = pr.other
                    /\ pr.signer = PublicSignKey(ClientId(Owner(p)))

\* A signature was checked, under the signer's key, for a pair that differs
\* from the signed one in the value of one plain entry only, and failed.
C23_Witness ==
    LET pr == proc["p1"]
    IN /\ pr.op = "verify" /\ pr.pc = "idle"
       /\ pr.signer = PublicSignKey(ClientId("A"))
       /\ pr.info.plain # <<>>
       /\ pr.other.plain # <<>>
       /\ pr.info.plain # pr.other.plain
       /\ [pr.other EXCEPT !.plain = pr.info.plain] = pr.info
       /\ ~pr.verified

CachedFor(pr, c) ==
    akCache[c][CacheKey(AkQuad(pr, c)[1], AkQuad(pr, c)[2], AkQuad(pr, c)[3], AkQuad(pr, c)[4])]

\* getAccessKey(W, U, R, T) answers with the cached entry of (W, U, T),
\* whoever the reader R is.
AnswersFromCache ==
    \A c \in Clients, q \in Quads :
        akCache[c][CacheKey(q[1], q[2], q[3], q[4])] # 0
        => GetAccessKey(c, q[1], q[2], q[3], q[4]) = akCache[c][<<q[1], q[2], q[4]>>]

\* A call waits for the access-key GET only when the entry was missing.
GetOnlyOnMiss(p) ==
    (proc[p].pc # "getAk" /\ proc'[p].pc = "getAk") => CachedFor(proc'[p], Owner(p)) = 0

\* write, update and share on a Client that holds the key go on with the
\* cached key, with no request sent in between.
HitGoesOn(p) ==
    ( /\ proc[p].pc = "idle"
      /\ proc'[p] # proc[p]
      /\ proc'[p].op \in {"write", "update", "share"}
      /\ proc'[p].phase \in {"enc", "reader"}
      /\ CachedFor(proc'[p], Owner(p)) # 0 )
    => /\ proc'[p].pc \in {"postRecord", "putRecord", "getClient"}
       /\ proc'[p].ak = CachedFor(proc'[p], Owner(p))
       /\ UNCHANGED <<tokenVars, akCache>>

\* A record GET answered 2xx for a record whose key is cached ends the read
\* in the same step, decrypted with the cached key.
HitDecrypts(p) ==
    LET rec == srvRecords[proc[p].rid]
        hit == akCache[Owner(p)][<<rec.writer, rec.user, rec.type>>]
    IN ( /\ proc[p].pc = "getRecord"
         /\ proc'[p] # proc[p]
         /\ proc'[p].status = 200
         /\ hit # 0 )
       => /\ proc'[p].pc = "idle"
          /\ proc'[p].out = "ok" => proc'[p].ret = DecryptRecord(rec, hit)
          /\ UNCHANGED akCache

\* C30: getAccessKey(W, U, R, T) on a Client whose cache holds an entry for
\* (W, U, T) returns that entry without sending a request, for every reader
\* R; the access-key GET is sent only when the entry is missing.
C30_CacheHitSendsNothing ==
    /\ []AnswersFromCache
    /\ [][\A p \in Procs : GetOnlyOnMiss(p) /\ HitGoesOn(p) /\ HitDecrypts(p)]_vars

\* The reader holds the writer's key in its cache and has read a record;
\* the writer is updating with the key it has cached, and has not received
\* any answer in this call yet.
C30_Witness ==
    /\ akCache["B"][<<"A", "A", "t1">>] # 0
    /\ proc["p3"].op = "read"
    /\ proc["p3"].out = "ok"
    /\ proc["p1"].op = "update"
    /\ proc["p1"].pc = "putRecord"
    /\ proc["p1"].status = 0
    /\ proc["p1"].ak = akCache["A"][<<"A", "A", "t1">>]

\* The statuses checkStatus lets through.
Is2xx(status) == status \in {200, 201, 204}

\* The (writer, user, reader, type) a share or revoke call is about.
SharedQuad(p) == <<ClientId(Owner(p)), ClientId(Owner(p)), proc[p].reader, proc[p].type>>

\* The policy PUT of a share is next only once the PUT of the reader's EAK
\* was answered 2xx, with that EAK stored.
PolicyAfterKey(p) ==
    (proc'[p].op = "share" /\ proc'[p].pc = "putPolicy" /\ proc[p].pc # "putPolicy")
    => /\ proc[p].op = "share"
       /\ proc[p].pc = "putAk"
       /\ proc[p].phase = "reader"
       /\ Is2xx(proc'[p].status)
       /\ srvEak'[SharedQuad(p)] # NoEak
       /\ srvEak'[SharedQuad(p)].eak =
             EncryptAk(PrivateKey(Owner(p)), proc[p].ak, PublicKey(proc[p].reader))

\* A share whose lookup of the reader or PUT of the reader's EAK fails
\* rejects and never puts the policy.
NoPolicyAfterFailure(p) ==
    ( /\ proc[p].op = "share"
      /\ proc[p].pc \in {"getClient", "putAk"}
      /\ proc'[p] # proc[p]
      /\ ~Is2xx(proc'[p].status) )
    => /\ proc'[p].pc = "idle"
       /\ proc'[p].out \notin {"ok", "none"}
       /\ UNCHANGED srvPolicy

\* C27: within one share(T, R) the access-key PUT for (self, self, R, T) is
\* sent and answered 2xx before the allow-policy PUT is sent; when the lookup
\* of the reader's public key or the access-key PUT fails, share rejects and
\* no policy PUT is sent.
C27_KeyBeforePolicy ==
    [][\A p \in Procs : PolicyAfterKey(p) /\ NoPolicyAfterFailure(p)]_vars

\* A share is about to put the policy, with the reader's EAK stored and the
\* policy not yet allowing the reader.
C27_Witness ==
    /\ proc["p1"].op = "share"
    /\ proc["p1"].pc = "putPolicy"
    /\ srvEak[SharedQuad("p1")] # NoEak
    /\ srvPolicy[SharedQuad("p1")] # "allow"

\* The access-key DELETE of a revoke is next only once its policy PUT was
\* answered 2xx, with the deny policy in force.
KeyAfterPolicy(p) ==
    (proc'[p].op = "revoke" /\ proc'[p].pc = "delAk" /\ proc[p].pc # "delAk")
    => /\ proc[p].op = "revoke"
       /\ proc[p].pc = "putPolicy"
       /\ Is2xx(proc'[p].status)
       /\ srvPolicy'[SharedQuad(p)] = "deny"

\* A revoke whose policy PUT fails rejects, sends no DELETE and leaves the
\* cache and the reader's EAK alone.
NoDeleteAfterFailure(p) ==
    ( /\ proc[p].op = "revoke"
      /\ proc[p].pc = "putPolicy"
      /\ proc'[p] # proc[p]
      /\ ~Is2xx(proc'[p].status) )
    => /\ proc'[p].pc = "idle"
       /\ proc'[p].out \notin {"ok", "none"}
       /\ UNCHANGED <<akCache, srvEak>>

\* An EAK leaves the server only under the deny policy.
DeletedUnderDeny ==
    \A q \in Quads :
        (srvEak[q] # NoEak /\ srvEak'[q] = NoEak) => srvPolicy[q] = "deny"

\* A reader is handed a record only while the policy allows it: once the
\* deny policy is in force no record GET of the reader is answered 2xx,
\* whether or not its EAK is still there to fetch.
ReadsUnderAllow(p) ==
    LET rec == srvRecords[proc[p].rid]
    IN ( /\ proc[p].pc = "getRecord"
         /\ proc'[p] # proc[p]
         /\ Is2xx(proc'[p].status)
         /\ rec.writer # ClientId(Owner(p)) )
       => srvPolicy[<<rec.writer, rec.user, ClientId(Owner(p)), rec.type>>] = "allow"

\* C28: within one revoke(T, R) the deny-policy PUT is sent and answered 2xx
\* before the access-key DELETE for (self, self, R, T) is sent; when the
\* policy PUT fails, revoke rejects, no DELETE is sent and the AK cache is
\* unchanged.  A reader racing with the revoke reads no record once the deny
\* policy is in force, even while its EAK can still be fetched.
C28_PolicyBeforeKey ==
    [][/\ \A p \in Procs : KeyAfterPolicy(p) /\ NoDeleteAfterFailure(p) /\ ReadsUnderAllow(p)
       /\ DeletedUnderDeny]_vars

\* The deny policy is in force, the revoke has its DELETE still to send, the
\* reader's EAK is there, and the reader's read has just been refused.
C28_Witness ==
    /\ proc["p1"].op = "revoke"
    /\ proc["p1"].pc = "delAk"
    /\ srvPolicy[SharedQuad("p1")] = "deny"
    /\ srvEak[SharedQuad("p1")] # NoEak
    /\ proc["p3"].op = "read"
    /\ proc["p3"].status = 403

\* The step of call p is an access-key operation the server confirmed, and
\* the entry `key` of its Client's cache is what that operation leaves: the
\* unsealed key of a GET answered 2xx, the key that was put by a PUT
\* answered 2xx, nothing after a DELETE answered 2xx.
ConfirmedChange(p, key) ==
    LET c == Owner(p)
        pr == proc[p]
    IN /\ Is2xx(proc'[p].status)
       /\ \/ /\ pr.pc = "getAk"
             /\ key = CacheKey(AkQuad(pr, c)[1], AkQuad(pr, c)[2], AkQuad(pr, c)[3], AkQuad(pr, c)[4])
             /\ srvEak[AkQuad(pr, c)] # NoEak
             /\ akCache'[c][key] = DecryptEak(PrivateKey(c), EakInfoOf(AkQuad(pr, c)))
             /\ akCache'[c][key] # OpenFailed
          \/ /\ pr.pc = "putAk"
             /\ key = CacheKey(PutQuad(pr, c)[1], PutQuad(pr, c)[2], PutQuad(pr, c)[3], PutQuad(pr, c)[4])
             /\ srvEak'[PutQuad(pr, c)] # NoEak
             /\ akCache'[c][key] = pr.ak
          \/ /\ pr.pc = "delAk"
             /\ key = <<ClientId(c), ClientId(c), pr.type>>
             /\ srvEak'[<<ClientId(c), ClientId(c), pr.reader, pr.type>>] = NoEak
             /\ akCache'[c][key] = 0

\* C29: an entry of the AK cache changes only in a step in which the server
\* confirmed an access-key operation (GET answered 2xx and unsealed, PUT
\* answered 2xx, DELETE answered 2xx); a GET answered 404, any other non-2xx
\* answer, a failed transport and a failed unseal leave the cache as it was,
\* and neither 'absent' nor a failed unseal is ever stored.
C29_CacheChangesOnConfirmedOps ==
    /\ [](\A c \in Clients, key \in CacheKeys : akCache[c][key] # OpenFailed)
    /\ [][\A c \in Clients, key \in CacheKeys :
            akCache'[c][key] # akCache[c][key]
            => \E p \in Procs : Owner(p) = c /\ ConfirmedChange(p, key)]_vars

\* The two answers that are not errors although they are not 2xx: 403 to a
\* record DELETE, 404 to an access-key GET.
Exempt(p) ==
    \/ proc[p].pc = "delRecord" /\ proc'[p].status = 403
    \/ proc[p].pc = "getAk" /\ proc'[p].status = 404

\* C24: errors are never swallowed.  A call that is answered non-2xx by any
\* endpoint (403 to a record delete and 404 to an access-key GET apart)
\* rejects in that step: it neither goes on nor resolves, the calls answered
\* 401 after a refused token fetch and backup's notification POST included.
C24_ErrorsNeverSwallowed ==
    [][\A p \in Procs :
         ( /\ proc[p].pc # "idle"
           /\ proc'[p] # proc[p]
           /\ proc'[p].status # 0
           /\ ~Is2xx(proc'[p].status)
           /\ ~Exempt(p) )
         => /\ proc'[p].pc = "idle"
            /\ proc'[p].out \notin {"ok", "none"}]_vars

\* C26: once the registration request is answered 2xx, register resolves
\* with the ClientDetails decoded from the answer, whether or not a backup
\* was made; and backup() has run to its end by then exactly when backup was
\* asked for, the X-Backup-Client header was there and a private encryption
\* key was supplied.
C26_RegisterResolves ==
    \A p \in Procs :
        (proc[p].outer = "register" /\ proc[p].pc = "idle" /\ proc[p].details # "-")
        => /\ proc[p].out = "ok"
           /\ proc[p].resolved = proc[p].details
           /\ proc[p].backedUp <=> (proc[p].backup /\ proc[p].header /\ proc[p].hasKey)

\* C34: share(T, self) and revoke(T, self) resolve true in the step that
\* starts them: no token, access-key or policy request is sent, and the AK
\* cache, the token slot and the server's keys, policies and records stay as
\* they were.
C34_SelfIsNoOp ==
    [][\A p \in Procs :
         ( /\ proc[p].pc = "idle"
           /\ proc'[p] # proc[p]
           /\ proc'[p].op \in {"share", "revoke"}
           /\ proc'[p].reader = ClientId(Owner(p)) )
         => /\ proc'[p].pc = "idle"
            /\ proc'[p].out = "ok"
            /\ proc'[p].status = 0
            /\ UNCHANGED <<srvEak, srvPolicy, srvRecords, akCache, tokenVars>>]_vars

\* A revoke with the Client itself has resolved on a Client that holds a
\* cached key, a token and a reader it shares with.
C34_Witness ==
    /\ proc["p1"].op = "revoke"
    /\ proc["p1"].reader = ClientId("A")
    /\ proc["p1"].out = "ok"
    /\ akCache["A"][<<"A", "A", "t1">>] # 0
    /\ authToken["A"] # NoToken
    /\ srvPolicy[<<"A", "A", "B", "t1">>] = "allow"

\* The page a search of call p is answered with now.
PageNow(p) ==
    PageOf(SearchResults(GetToken(Owner(p)), proc[p].type, proc[p].all),
           proc[p].afterIndex, proc[p].count)

\* The step of p is a step of a next() on the QueryResult p already holds.
SameQueryResult(p) == proc[p].op = "next" /\ proc'[p].op = "next" /\ proc'[p] # proc[p]

\* C33: a QueryResult starts with done = false and afterIndex = 0; done
\* becomes true exactly when a search is answered with an empty result list
\* and never returns to false; once done, next() returns an empty batch
\* without sending a request; an empty page leaves afterIndex as it was.
C33_DoneIsFinal ==
    [][\A p \in Procs :
         /\ (proc[p].op # "next" /\ proc'[p].op = "next")
            => (~proc'[p].done /\ proc'[p].afterIndex = 0)
         /\ (SameQueryResult(p) /\ ~proc[p].done /\ proc'[p].done)
            => (proc[p].pc = "search" /\ Is2xx(proc'[p].status) /\ PageNow(p) = {}
                /\ proc'[p].afterIndex = proc[p].afterIndex
                /\ proc'[p].out = "ok" /\ proc'[p].n = 0)
         /\ (SameQueryResult(p) /\ proc[p].pc = "search" /\ Is2xx(proc'[p].status)
              /\ PageNow(p) = {})
            => proc'[p].done
         /\ (SameQueryResult(p) /\ proc[p].done)
            => /\ proc'[p].done
               /\ proc'[p].pc = "idle"
               /\ proc'[p].out = "ok"
               /\ proc'[p].n = 0
               /\ proc'[p].afterIndex = proc[p].afterIndex
               /\ proc'[p].returned = proc[p].returned
               /\ UNCHANGED tokenVars]_vars

\* A QueryResult that returned a record and then got an empty page: done,
\* with afterIndex at the record's index, and the call after that resolved.
C33_Witness ==
    /\ proc["p1"].op = "next"
    /\ proc["p1"].done
    /\ proc["p1"].afterIndex > 0
    /\ proc["p1"].pc = "idle"
    /\ proc["p1"].out = "ok"
    /\ Len(proc["p1"].returned) > 0

\* C38: a next() that rejects (the search fails or is answered non-2xx, or
\* a result cannot be decrypted) leaves afterIndex and done as they were:
\* the next next() asks for the same page, and no record is skipped.
C38_RejectKeepsCursor ==
    [][\A p \in Procs :
         ( /\ proc[p].op = "next"
           /\ proc[p].pc = "search"
           /\ proc'[p].pc = "idle"
           /\ proc'[p].out \notin {"ok", "none"} )
         => /\ proc'[p].afterIndex = proc[p].afterIndex
            /\ proc'[p].done = proc[p].done
            /\ proc'[p].returned = proc[p].returned]_vars

\* A next() has rejected on a page that held a record.
C38_Witness ==
    /\ proc["p1"].op = "next"
    /\ proc["p1"].pc = "idle"
    /\ proc["p1"].out = "TypeError"
    /\ proc["p1"].n > 0
    /\ proc["p1"].afterIndex = 0

\* Two next() calls on the one QueryResult are in flight.
Overlapping == \A p \in ConcProcs : proc[p].op = "next" /\ proc[p].pc = "search"

\* C37: overlapping next() calls on one QueryResult never send the same
\* after_index, never return a record twice, and never move afterIndex
\* backwards.
C37_OverlappingNext ==
    /\ [](Overlapping => proc["p1"].after # proc["p2"].after)
    /\ [](proc[Holder].op = "next" => ~proc[Holder].again)
    /\ [][(\E p \in ConcProcs : proc[p].pc = "search" /\ proc'[p].pc = "idle")
          => proc'[Holder].afterIndex >= proc[Holder].afterIndex]_vars

RECURSIVE CanonicalJson(_)
RECURSIVE CanonicalMembers(_)
RECURSIVE JsonArray(_)
\* The elements of an array in their order, with commas between them.
JsonArray(elems) ==
    IF elems = <<>> THEN <<>>
    ELSE <<Head(elems)>> \o (IF Tail(elems) = <<>> THEN <<>> ELSE <<",">>)
         \o JsonArray(Tail(elems))

\* The canonical form the specification describes, for properties already listed in
\* code-unit order with the null ones left out: arrays as JSON arrays in
\* their own order, nested objects in canonical form.
CanonicalMembers(obj) ==
    IF obj = <<>> THEN <<>>
    ELSE <<Head(obj).key, ":">>
         \o (CASE Head(obj).kind = "object" -> CanonicalJson(Head(obj).obj)
               [] Head(obj).kind = "array" -> <<"[">> \o JsonArray(Head(obj).obj) \o <<"]">>
               [] OTHER -> <<Head(obj).val>>)
         \o (IF Tail(obj) = <<>> THEN <<>> ELSE <<",">>)
         \o CanonicalMembers(Tail(obj))

CanonicalJson(obj) ==
    LET kept == SelectSeq(obj, LAMBDA entry : entry.kind # "null")
    IN <<"{">> \o CanonicalMembers(ListInOrder(kept, SortKeys(ObjectKeys(kept)))) \o <<"}">>

\* C35: for every document with an array or a null value at any depth,
\* stringify() returns a string; in it the arrays are JSON arrays with their
\* elements in the original order and the null-valued fields do not appear.
C35_ArraysAndNulls ==
    \A p \in OfflineProcs :
        (proc[p].op = "stringify" /\ proc[p].pc = "idle")
        => /\ proc[p].out = "ok"
           /\ proc[p].str = CanonicalJson(proc[p].doc)

----------------------------------------------------------------------------
(* A cached key and the EAK it came from *)

\* The cache entry a read of the record `rec` by the Client c works with.
EntryFor(c, rec) == akCache[c][<<rec.writer, rec.user, rec.type>>]

\* A read of p's Client has ended, answered by the server, and from its
\* first request on the server held no EAK for that Client on the record's
\* (writer, user, type), the writer having revoked it.
ReadWithoutEak(p) ==
    /\ ReadAnswered(p)
    /\ proc[p].seen = "revoked"
    /\ srvRecords[proc[p].rid] # NoRec
    /\ srvEak[<<srvRecords[proc[p].rid].writer, srvRecords[proc[p].rid].user,
                ClientId(Owner(p)), srvRecords[proc[p].rid].type>>] = NoEak

\* C31: a cached AK does not outlive its EAK: always, when a reader's read
\* of a record has ended while the server stored no EAK for that reader on
\* the record's (W,U,T), the read has ended with NoAccess and the reader's
\* cache holds no key for (W,U,T) any more.
C31_CachedAkDiesWithEak ==
    [](\A p \in SeqProcs :
          ReadWithoutEak(p)
              => /\ proc[p].out = "NoAccess"
                 /\ EntryFor(Owner(p), srvRecords[proc[p].rid]) = 0)

----------------------------------------------------------------------------
(* update and the key of the record's type *)

\* The EAK the server stores for the updating Client itself on the
\* (writer, user, type) of the record its update carries.
OwnEakOf(p) ==
    srvEak[<<proc[p].body.writer, proc[p].body.user, ClientId(Owner(p)), proc[p].body.type>>]

\* C32: update(record) never rotates the AK: an update has drawn no key
\* from randomKey(), is never on its way to an access-key PUT, and the
\* record it sends is encrypted with the key the server's EAK for
\* (record.meta.writerId, record.meta.userId, record.meta.type) wraps.
C32_UpdateKeepsAk ==
    \A p \in Procs :
        proc[p].op = "update"
            => /\ proc[p].made = 0
               /\ proc[p].pc \notin {"getClient", "putAk"}
               /\ proc[p].pc = "putRecord"
                     => /\ OwnEakOf(p) # NoEak
                        /\ proc[p].ak = OwnEakOf(p).eak.ak

----------------------------------------------------------------------------
(* Calls that need the key of a type while another such call is in flight *)

\* One Client whose caller starts a write or a share without waiting for
\* the call before it: every await of the one call is a point where the
\* other may run, the first getAccessKey of a type included.
NextFirstKey ==
    \E p \in ConcProcs :
        \/ \E t \in Types, v \in Values : StartWrite(p, t, v)
        \/ \E t \in Types, r \in Clients : StartShare(p, t, r)
        \/ DoGetAccessKey(p)
        \/ DoGetClient(p)
        \/ DoPutAccessKey(p)
        \/ DoPostRecord(p)
        \/ DoPutPolicy(p)
        \/ FailRequest(p)

SpecFirstKey == Init /\ [][NextFirstKey]_vars

\* The EAK the server stores for the writer c itself on (c, c, t).
OwnEak(c, t) == srvEak[<<ClientId(c), ClientId(c), ClientId(c), t>>]

\* The record is stored and the key the server's EAK for its writer wraps
\* opens it.
Decryptable(rid) ==
    LET rec == srvRecords[rid]
        own == srvEak[<<rec.writer, rec.user, rec.writer, rec.type>>]
    IN /\ own # NoEak
       /\ DecryptField(rec.data, own.eak.ak).form = "plain"

\* C36: with writes and shares of one Client in flight at once, at most one
\* fresh AK is generated and stored for (self,self,T): a stored EAK of the
\* writer for itself is never replaced by one that wraps another key; and
\* once the calls have ended every record they wrote is decryptable with
\* the AK the server stores.
C36_OneKeyUnderInterleaving ==
    /\ [][\A c \in Writers, t \in Types :
             OwnEak(c, t) # NoEak => OwnEak(c, t)' = OwnEak(c, t)]_vars
    /\ [](Settled => \A rid \in Rids : srvRecords[rid] # NoRec => Decryptable(rid))

----------------------------------------------------------------------------
(* What a revoke leaves alone *)

\* The step is one of p's revoke call: the answer to its policy PUT or to
\* its access-key DELETE.
RevokeStep(p) ==
    /\ proc[p].op = "revoke"
    /\ proc[p].pc # "idle"
    /\ proc'[p] # proc[p]

\* The (writer, user, reader, type) p's revoke is about.
RevokedQuad(p) ==
    <<ClientId(Owner(p)), ClientId(Owner(p)), proc[p].reader, proc[p].type>>

\* The writer c still gets, from its cache or from its own EAK, the key
\* every stored encrypted record of its type t is sealed under.
WriterKeeps(c, t) ==
    \A rid \in Rids :
        (/\ srvRecords[rid] # NoRec
         /\ srvRecords[rid].writer = ClientId(c)
         /\ srvRecords[rid].type = t
         /\ srvRecords[rid].data.form = "enc")
            => GetAccessKey(c, ClientId(c), ClientId(c), ClientId(c), t)
                  = srvRecords[rid].data.ak

\* C39: revoke(T,R) affects only reader R on type T: no step of a revoke
\* changes the server's EAK or policy of any other (writer, user, reader,
\* type), the writer's own EAK included; and once a reader of T has been
\* revoked the writer still obtains the AK its records of T are sealed
\* under, the same as before the revoke, for its reads, writes and updates.
C39_RevokeFrame ==
    /\ [][\A p \in Procs :
             RevokeStep(p)
                 => \A q \in Quads \ {RevokedQuad(p)} :
                       /\ srvEak'[q] = srvEak[q]
                       /\ srvPolicy'[q] = srvPolicy[q]]_vars
    /\ [](\A c \in Writers, t \in Types, r \in Clients :
             grant[<<ClientId(c), r, t>>] = "revoked" => WriterKeeps(c, t))

====
